---- MODULE Spec2Model ----
(***************************************************************************)
(* Model of the document rendering pipeline of org_base:                   *)
(*   scripts/docx_converter.py      (tokenizer, run reconstructor, tables)  *)
(*   scripts/document_converter.py  (list repair of the normalizer)         *)
(*                                                                         *)
(* Text is a sequence of one-character strings, so the patterns of the      *)
(* code see the same characters, offsets and lengths as in the program.     *)
(* Cyrillic letters of the documents are written as lower-case letters:     *)
(* like them they are outside [A-Z] and are not whitespace.                 *)
(***************************************************************************)
EXTENDS Integers, Sequences, FiniteSets, TLC

(***************************************************************************)
(* Python's re: a backtracking matcher.  A pattern is a sequence of nodes:  *)
(*   lit   a literal text                                                   *)
(*   cls   a character class with a quantifier {min,max}, greedy or lazy    *)
(*   alt   alternatives, tried in order                                     *)
(*   rep   a greedy repetition (min or more) of a sub-pattern               *)
(*   gs/ge start and end of capture group id                                *)
(*   bos/eos  ^ and $ (no MULTILINE)                                        *)
(*   la    a positive lookahead                                             *)
(* ReMatch gives the first match in re's priority order.                    *)
(***************************************************************************)
Inf == 1000000

NoCaps == [g \in 1..3 |-> <<0, 0>>]

ReFail == [ok |-> FALSE, e |-> 0, c |-> NoCaps]

Lit(s) == [k |-> "lit", s |-> s]

Cls(set, neg, min, max, lazy) ==
    [k |-> "cls", set |-> set, neg |-> neg, min |-> min, max |-> max, lazy |-> lazy]

Alt(as) == [k |-> "alt", as |-> as]

Rep(body, min) == [k |-> "rep", body |-> body, min |-> min]

GS(id) == [k |-> "gs", id |-> id]

GE(id) == [k |-> "ge", id |-> id]

Bos == [k |-> "bos"]

Eos == [k |-> "eos"]

La(body) == [k |-> "la", body |-> body]

Upper == {"A", "B", "C", "D", "E", "F", "G", "H", "I", "J", "K", "L", "M",
          "N", "O", "P", "Q", "R", "S", "T", "U", "V", "W", "X", "Y", "Z"}

LowerOf ==
    [ch \in Upper |->
       CASE ch = "A" -> "a" [] ch = "B" -> "b" [] ch = "C" -> "c" [] ch = "D" -> "d"
         [] ch = "E" -> "e" [] ch = "F" -> "f" [] ch = "G" -> "g" [] ch = "H" -> "h"
         [] ch = "I" -> "i" [] ch = "J" -> "j" [] ch = "K" -> "k" [] ch = "L" -> "l"
         [] ch = "M" -> "m" [] ch = "N" -> "n" [] ch = "O" -> "o" [] ch = "P" -> "p"
         [] ch = "Q" -> "q" [] ch = "R" -> "r" [] ch = "S" -> "s" [] ch = "T" -> "t"
         [] ch = "U" -> "u" [] ch = "V" -> "v" [] ch = "W" -> "w" [] ch = "X" -> "x"
         [] ch = "Y" -> "y" [] ch = "Z" -> "z"]

LowerCh(ch) == IF ch \in Upper THEN LowerOf[ch] ELSE ch

InCls(n, ch) == IF n.neg THEN ch \notin n.set ELSE ch \in n.set

StartsWithAt(s, i, p) ==
    /\ i + Len(p) - 1 <= Len(s)
    /\ \A j \in 1..Len(p) : s[i + j - 1] = p[j]

SetMin(S) == CHOOSE x \in S : \A y \in S : x <= y

SetMax(S) == CHOOSE x \in S : \A y \in S : x >= y

\* the number of consecutive symbols of class n from position i, at most lim
ClsRun(n, s, i, lim) ==
    LET stops == {j \in i..Len(s) : ~InCls(n, s[j])}
        run == IF stops = {} THEN Len(s) - i + 1 ELSE SetMin(stops) - i
    IN IF run < lim THEN run ELSE lim

\* a literal under re.IGNORECASE
StartsWithAtI(s, i, p) ==
    /\ i + Len(p) - 1 <= Len(s)
    /\ \A j \in 1..Len(p) : LowerCh(s[i + j - 1]) = LowerCh(p[j])

RECURSIVE ReMatch(_, _, _, _)

\* a quantified class: the first length, in the order re tries them (longest
\* first when greedy, shortest first when lazy), with which the rest matches
ReTryLens(r, s, i, c, min, max, lazy) ==
    LET lens == {l \in min..max : ReMatch(r, s, i + l, c).ok}
    IN IF lens = {} THEN ReFail
       ELSE ReMatch(r, s, i + (IF lazy THEN SetMin(lens) ELSE SetMax(lens)), c)

\* alternatives: the first one with which the rest matches
ReTryAlts(as, r, s, i, c) ==
    LET oks == {a \in 1..Len(as) : ReMatch(as[a] \o r, s, i, c).ok}
    IN IF oks = {} THEN ReFail ELSE ReMatch(as[SetMin(oks)] \o r, s, i, c)

\* the pattern ns matched at position i of s with the groups c captured so far
ReMatch(ns, s, i, c) ==
    CASE ns = <<>> -> [ok |-> TRUE, e |-> i, c |-> c]
      [] ns # <<>> /\ ns[1].k = "lit" ->
           IF StartsWithAt(s, i, ns[1].s) THEN ReMatch(Tail(ns), s, i + Len(ns[1].s), c)
           ELSE ReFail
      [] ns # <<>> /\ ns[1].k = "liti" ->
           IF StartsWithAtI(s, i, ns[1].s) THEN ReMatch(Tail(ns), s, i + Len(ns[1].s), c)
           ELSE ReFail
      [] ns # <<>> /\ ns[1].k = "cls" ->
           ReTryLens(Tail(ns), s, i, c, ns[1].min, ClsRun(ns[1], s, i, ns[1].max),
                     ns[1].lazy)
      [] ns # <<>> /\ ns[1].k = "alt" -> ReTryAlts(ns[1].as, Tail(ns), s, i, c)
      [] ns # <<>> /\ ns[1].k = "rep" ->
           IF ns[1].min > 0
           THEN ReMatch(ns[1].body \o <<Rep(ns[1].body, ns[1].min - 1)>> \o Tail(ns),
                        s, i, c)
           ELSE IF ReMatch(ns[1].body \o ns, s, i, c).ok
           THEN ReMatch(ns[1].body \o ns, s, i, c)
           ELSE ReMatch(Tail(ns), s, i, c)
      [] ns # <<>> /\ ns[1].k = "gs" ->
           ReMatch(Tail(ns), s, i, [c EXCEPT ![ns[1].id] = <<i, i>>])
      [] ns # <<>> /\ ns[1].k = "ge" ->
           ReMatch(Tail(ns), s, i, [c EXCEPT ![ns[1].id] = <<c[ns[1].id][1], i>>])
      [] ns # <<>> /\ ns[1].k = "bos" ->
           IF i = 1 THEN ReMatch(Tail(ns), s, i, c) ELSE ReFail
      [] ns # <<>> /\ ns[1].k = "eos" ->
           IF i = Len(s) + 1 \/ (i = Len(s) /\ s[i] = "\n")
           THEN ReMatch(Tail(ns), s, i, c) ELSE ReFail
      [] ns # <<>> /\ ns[1].k = "la" ->
           IF ReMatch(ns[1].body, s, i, c).ok THEN ReMatch(Tail(ns), s, i, c)
           ELSE ReFail

\* a match object: where the match m, tried at b, begins and ends
MatchObject(b, m) == [ok |-> TRUE, b |-> b, e |-> m.e, c |-> m.c]

MatchAt(ns, s, b) == MatchObject(b, ReMatch(ns, s, b, NoCaps))

\* the match at the leftmost of the positions where the pattern matches
Leftmost(ns, s, starts) ==
    IF starts = {} THEN [ok |-> FALSE, b |-> 0, e |-> 0, c |-> NoCaps]
    ELSE MatchAt(ns, s, SetMin(starts))

\* re.search from position i: [ok, b, e, c], the leftmost match
ReSearch(ns, s, i) ==
    Leftmost(ns, s, {j \in i..(Len(s) + 1) : ReMatch(ns, s, j, NoCaps).ok})

Slice(s, b, e) == SubSeq(s, b, e - 1)

RECURSIVE Expand(_, _, _)
\* a replacement template: literal pieces and group references
Expand(tpl, s, c) ==
    IF tpl = <<>> THEN <<>>
    ELSE (IF Head(tpl).g = 0 THEN Head(tpl).s
          ELSE Slice(s, c[Head(tpl).g][1], c[Head(tpl).g][2]))
         \o Expand(Tail(tpl), s, c)

TL(s) == [g |-> 0, s |-> s]

TG(g) == [g |-> g, s |-> <<>>]

RECURSIVE ReSubFrom(_, _, _, _)
\* the text from i on, the next match m replaced and the rest substituted
ReSubMatch(ns, tpl, s, i, m) ==
    IF ~m.ok THEN Slice(s, i, Len(s) + 1)
    ELSE Slice(s, i, m.b) \o Expand(tpl, s, m.c)
         \o (IF m.e > m.b THEN ReSubFrom(ns, tpl, s, m.e)
             ELSE IF m.b > Len(s) THEN <<>>
             ELSE <<s[m.b]>> \o ReSubFrom(ns, tpl, s, m.b + 1))

\* the substitution from position i on; there is nothing past the end of s
ReSubFrom(ns, tpl, s, i) ==
    IF i > Len(s) + 1 THEN <<>> ELSE ReSubMatch(ns, tpl, s, i, ReSearch(ns, s, i))

\* re.sub(pattern, template, s)
ReSub(ns, tpl, s) == ReSubFrom(ns, tpl, s, 1)

RECURSIVE ReSplitFrom(_, _, _)
\* re.split(r'(pattern)', s): the texts between the matches and the matches
ReSplitMatch(ns, s, i, m) ==
    IF ~m.ok \/ m.e = m.b THEN <<Slice(s, i, Len(s) + 1)>>
    ELSE <<Slice(s, i, m.b), Slice(s, m.b, m.e)>> \o ReSplitFrom(ns, s, m.e)

ReSplitFrom(ns, s, i) ==
    IF i > Len(s) + 1 THEN <<>> ELSE ReSplitMatch(ns, s, i, ReSearch(ns, s, i))

ReSplit(ns, s) == ReSplitFrom(ns, s, 1)

Contains(s, p) == \E i \in 1..(Len(s) + 1) : StartsWithAt(s, i, p)

StartsWith(s, p) == StartsWithAt(s, 1, p)

EndsWith(s, p) == Len(p) <= Len(s) /\ StartsWithAt(s, Len(s) - Len(p) + 1, p)

Space == {" ", "\n", "\t"}

RECURSIVE LStrip(_)
LStrip(s) == IF s # <<>> /\ Head(s) \in Space THEN LStrip(Tail(s)) ELSE s

RECURSIVE RStrip(_)
RStrip(s) ==
    IF s # <<>> /\ s[Len(s)] \in Space THEN RStrip(SubSeq(s, 1, Len(s) - 1)) ELSE s

\* str.strip()
Strip(s) == RStrip(LStrip(s))

RECURSIVE Flatten(_)
Flatten(ss) == IF ss = <<>> THEN <<>> ELSE Head(ss) \o Flatten(Tail(ss))

(***************************************************************************)
(* The sentinels of the intermediate representation.                       *)
(***************************************************************************)
US == <<"_", "_">>

W_BOLD == <<"B", "O", "L", "D">>

W_ITALIC == <<"I", "T", "A", "L", "I", "C">>

Mark(w) == US \o w \o US

S_BOLD == Mark(W_BOLD)

S_EBOLD == Mark(<<"/">> \o W_BOLD)

S_ITALIC == Mark(W_ITALIC)

S_EITALIC == Mark(<<"/">> \o W_ITALIC)

FormatSentinels == {S_BOLD, S_EBOLD, S_ITALIC, S_EITALIC}

S_P == Mark(<<"P">>)

S_EP == Mark(<<"/", "P">>)

S_LI == Mark(<<"L", "I">>)

S_ELI == Mark(<<"/", "L", "I">>)

S_H(n) == Mark(<<"H", n>>)

S_EH(n) == Mark(<<"/", "H", n>>)

W_UL_START == <<"U", "L", "_", "S", "T", "A", "R", "T">>

W_UL_END == <<"U", "L", "_", "E", "N", "D">>

W_OL_START == <<"O", "L", "_", "S", "T", "A", "R", "T">>

W_OL_END == <<"O", "L", "_", "E", "N", "D">>

Digits16 == {"1", "2", "3", "4", "5", "6"}

One(set) == Cls(set, FALSE, 1, 1, FALSE)

\* .*? under re.DOTALL
AnyLazy == Cls({}, TRUE, 0, Inf, TRUE)

\* __(P|/P|LI|/LI|H[1-6]|/H[1-6]|UL_START|UL_END|OL_START|OL_END)__
ServiceMarkers ==
    <<Lit(US),
      Alt(<< <<Lit(<<"P">>)>>, <<Lit(<<"/", "P">>)>>,
             <<Lit(<<"L", "I">>)>>, <<Lit(<<"/", "L", "I">>)>>,
             <<Lit(<<"H">>), One(Digits16)>>, <<Lit(<<"/", "H">>), One(Digits16)>>,
             <<Lit(W_UL_START)>>, <<Lit(W_UL_END)>>,
             <<Lit(W_OL_START)>>, <<Lit(W_OL_END)>> >>),
      Lit(US)>>

\* (__BOLD__.*?__/BOLD__|__ITALIC__.*?__/ITALIC__)
PairPattern ==
    <<Alt(<< <<Lit(S_BOLD), AnyLazy, Lit(S_EBOLD)>>,
             <<Lit(S_ITALIC), AnyLazy, Lit(S_EITALIC)>> >>)>>

\* __+
UPlus == Cls({"_"}, FALSE, 2, Inf, FALSE)

\* [A-Z_/]*?
UClsLazy == Cls(Upper \cup {"_", "/"}, FALSE, 0, Inf, TRUE)

\* (BOLD|ITALIC|/BOLD|/ITALIC)
KW == Alt(<< <<Lit(W_BOLD)>>, <<Lit(W_ITALIC)>>,
             <<Lit(<<"/">> \o W_BOLD)>>, <<Lit(<<"/">> \o W_ITALIC)>> >>)

\* __+[A-Z_/]*?(BOLD|ITALIC|/BOLD|/ITALIC)[A-Z_/]*?__+
CleanFull == <<UPlus, UClsLazy, KW, UClsLazy, UPlus>>

\* [A-Z_/]*?(BOLD|ITALIC|/BOLD|/ITALIC)[A-Z_/]*?__+
CleanTrailing == <<UClsLazy, KW, UClsLazy, UPlus>>

\* __+[A-Z_/]*?(BOLD|ITALIC|/BOLD|/ITALIC)[A-Z_/]*?
CleanLeading == <<UPlus, UClsLazy, KW, UClsLazy>>

\* ^_+\s*|\s*_+$
EdgeUnderscores ==
    <<Alt(<< <<Bos, Cls({"_"}, FALSE, 1, Inf, FALSE), Cls(Space, FALSE, 0, Inf, FALSE)>>,
             <<Cls(Space, FALSE, 0, Inf, FALSE), Cls({"_"}, FALSE, 1, Inf, FALSE), Eos>> >>)>>

\* \s+
Spaces == <<Cls(Space, FALSE, 1, Inf, FALSE)>>

\* the three substitutions that delete sentinel fragments
StripMarkers(part) ==
    ReSub(CleanLeading, <<>>, ReSub(CleanTrailing, <<>>, ReSub(CleanFull, <<>>, part)))

CollapseSpaces(t) == Strip(ReSub(Spaces, <<TL(<<" ">>)>>, t))

\* the clean-up of a damaged pair or of a plain part (with the edge underscores)
CleanDamaged(part) == CollapseSpaces(ReSub(EdgeUnderscores, <<>>, StripMarkers(part)))

\* the clean-up of an empty pair and of the text inside a pair (no edge pass)
CleanPlain(part) == CollapseSpaces(StripMarkers(part))

MkRun(t, b, i) == [text |-> t, bold |-> b, italic |-> i]

RunIf(t, b, i) == IF t # <<>> THEN <<MkRun(t, b, i)>> ELSE <<>>

HasFormatSentinel(content) == \E m \in FormatSentinels : Contains(content, m)

IsBoldPart(part) == StartsWith(part, S_BOLD) /\ EndsWith(part, S_EBOLD)

IsItalicPart(part) == StartsWith(part, S_ITALIC) /\ EndsWith(part, S_EITALIC)

\* part[8:-9] and part[10:-11]
Inner(part, a, b) == SubSeq(part, a + 1, Len(part) - b)

RECURSIVE AddFormattedTextToPara(_, _, _)
RECURSIVE ToParaParts(_, _, _)
\* _add_formatted_text_to_para: the runs it adds
AddFormattedTextToPara(text, force_bold, force_italic) ==
    ToParaParts(ReSplit(PairPattern, text), force_bold, force_italic)

ToParaParts(parts, force_bold, force_italic) ==
    IF parts = <<>> THEN <<>>
    ELSE LET part == Head(parts)
             here ==
               IF part = <<>> THEN <<>>
               ELSE IF IsBoldPart(part)
               THEN IF Strip(Inner(part, 8, 9)) # <<>>
                    THEN AddFormattedTextToPara(Inner(part, 8, 9), TRUE, force_italic)
                    ELSE <<>>
               ELSE IF IsItalicPart(part)
               THEN IF Strip(Inner(part, 10, 11)) # <<>>
                    THEN AddFormattedTextToPara(Inner(part, 10, 11), force_bold, TRUE)
                    ELSE <<>>
               ELSE RunIf(CleanPlain(part), force_bold, force_italic)
         IN here \o ToParaParts(Tail(parts), force_bold, force_italic)

\* the test without its length condition: one symbol is formatted as well
FormattableOneSymbol(content) ==
    /\ Strip(content) # <<>>
    /\ Head(Strip(content)) # "_"

\* content.strip() and not content.strip().startswith('_') and len(content.strip()) > 1
Formattable(content) ==
    /\ Strip(content) # <<>>
    /\ Head(Strip(content)) # "_"
    /\ Len(Strip(content)) > 1

\* one matched pair of _add_formatted_text_from_html
PairRuns(part, a, b, bold, italic) ==
    LET content == Inner(part, a, b)
    IN IF HasFormatSentinel(content) THEN RunIf(CleanDamaged(part), FALSE, FALSE)
       ELSE IF Formattable(content) THEN AddFormattedTextToPara(content, bold, italic)
       ELSE RunIf(CleanPlain(part), FALSE, FALSE)

BoldPartRuns(part) == PairRuns(part, 8, 9, TRUE, FALSE)

ItalicPartRuns(part) == PairRuns(part, 10, 11, FALSE, TRUE)

PlainPartRuns(part) == RunIf(CleanDamaged(part), FALSE, FALSE)

PartRuns(part) ==
    IF part = <<>> THEN <<>>
    ELSE IF IsBoldPart(part) THEN BoldPartRuns(part)
    ELSE IF IsItalicPart(part) THEN ItalicPartRuns(part)
    ELSE PlainPartRuns(part)

RECURSIVE PartsRuns(_)
PartsRuns(parts) ==
    IF parts = <<>> THEN <<>> ELSE PartRuns(Head(parts)) \o PartsRuns(Tail(parts))

\* the text the reconstructor splits: the service markers are deleted first
WithoutServiceMarkers(text) == ReSub(ServiceMarkers, <<>>, text)

\* _add_formatted_text_from_html: the runs of the paragraph afterwards
AddFormattedTextFromHtml(text) ==
    PartsRuns(ReSplit(PairPattern, WithoutServiceMarkers(text)))

RECURSIVE RunsText(_)
RunsText(runs) == IF runs = <<>> THEN <<>> ELSE Head(runs).text \o RunsText(Tail(runs))

(***************************************************************************)
(* Strings: helpers for str methods and re.IGNORECASE.                      *)
(***************************************************************************)
\* str.lower()
Lower(s) == [j \in 1..Len(s) |-> LowerCh(s[j])]

\* a pattern text under re.IGNORECASE
LitI(s) == <<[k |-> "liti", s |-> s]>>

Min(a, b) == IF a < b THEN a ELSE b

\* s[:n] and s[n:] of Python, which clamp n to the length
Take(s, n) == SubSeq(s, 1, Min(n, Len(s)))

Drop(s, n) == SubSeq(s, Min(n, Len(s)) + 1, Len(s))

RECURSIVE SplitOn(_, _)
\* str.split(ch)
SplitOn(s, ch) ==
    IF \A j \in 1..Len(s) : s[j] # ch THEN <<s>>
    ELSE LET k == CHOOSE j \in 1..Len(s) : s[j] = ch /\ \A l \in 1..(j - 1) : s[l] # ch
         IN <<SubSeq(s, 1, k - 1)>> \o SplitOn(SubSeq(s, k + 1, Len(s)), ch)

RECURSIVE JoinWith(_, _)
\* sep.join(parts)
JoinWith(parts, sep) ==
    IF parts = <<>> THEN <<>>
    ELSE IF Len(parts) = 1 THEN Head(parts)
    ELSE Head(parts) \o sep \o JoinWith(Tail(parts), sep)

\* str.replace(old, new)
Replace(s, old, new) == ReSub(<<Lit(old)>>, <<TL(new)>>, s)

RECURSIVE ReFindAllFrom(_, _, _)
\* re.finditer: every match [b, e, c], left to right, not overlapping
ReFindAllMatch(ns, s, m) ==
    IF ~m.ok THEN <<>>
    ELSE <<m>> \o ReFindAllFrom(ns, s, IF m.e > m.b THEN m.e ELSE m.b + 1)

ReFindAllFrom(ns, s, i) ==
    IF i > Len(s) + 1 THEN <<>> ELSE ReFindAllMatch(ns, s, ReSearch(ns, s, i))

ReFindAll(ns, s) == ReFindAllFrom(ns, s, 1)

\* html.unescape on the entities the renderer writes
Unescape(s) ==
    Replace(Replace(Replace(Replace(s, <<"&", "l", "t", ";">>, <<"<">>), <<"&", "g", "t", ";">>, <<">">>),
                    <<"&", "q", "u", "o", "t", ";">>, <<"\"">>), <<"&", "a", "m", "p", ";">>, <<"&">>)

(***************************************************************************)
(* _parse_table_html                                                        *)
(***************************************************************************)
NotGt == Cls({">"}, TRUE, 0, Inf, FALSE)

\* <name[^>]*>
OpenTag(name) == LitI(<<"<">> \o name) \o <<NotGt, Lit(<<">">>)>>

\* </name>
CloseTag(name) == LitI(<<"<", "/">> \o name \o <<">">>)

\* <name[^>]*>(.*?)</name>
PairTag(name) == OpenTag(name) \o <<GS(1), AnyLazy, GE(1)>> \o CloseTag(name)

\* <(td|th)[^>]*>(.*?)</(td|th)>
CellPattern ==
    LitI(<<"<">>) \o <<Alt(<<LitI(<<"t", "d">>), LitI(<<"t", "h">>)>>), NotGt, Lit(<<">">>),
                      GS(2), AnyLazy, GE(2)>>
    \o LitI(<<"<", "/">>) \o <<Alt(<<LitI(<<"t", "d">>), LitI(<<"t", "h">>)>>), Lit(<<">">>)>>

Group(s, m, g) == Slice(s, m.c[g][1], m.c[g][2])

MkCell(t, b, set) == [text |-> t, bold |-> b, set |-> set]

\* html.unescape(cell.strip()) for each matched cell
CellsOf(row, ms) == [k \in 1..Len(ms) |-> Unescape(Strip(Group(row, ms[k], 2)))]

\* the texts of the cells of one <tr>
CellTexts(row) == CellsOf(row, ReFindAll(CellPattern, row))

\* 'th' in row.lower()
IsHeaderRow(row) == Contains(Lower(row), <<"t", "h">>)

\* a max_cols that forgets the rows before: only the last row counts
MaxColsOfLastRow(max_cols, cell_texts) == Len(cell_texts)

\* max_cols = max(max_cols, len(cell_texts))
MaxCols(max_cols, cell_texts) ==
    IF Len(cell_texts) > max_cols THEN Len(cell_texts) ELSE max_cols

RECURSIVE MaxLen(_)
\* max_cols after the loop over the rows
MaxLen(ss) ==
    IF ss = <<>> THEN 0
    ELSE MaxCols(MaxLen(SubSeq(ss, 1, Len(ss) - 1)), ss[Len(ss)])

\* row row_idx of the table built: the given cells are assigned (a cell assigned
\* in a header row or in the first row is made bold), the others stay empty
TableRow(cells, is_header, row_idx, max_cols) ==
    [col \in 1..max_cols |->
       IF col <= Len(cells) THEN MkCell(cells[col], is_header \/ row_idx = 1, TRUE)
       ELSE MkCell(<<>>, FALSE, FALSE)]

\* table_data: the cell texts of each row
TableData(rows) == [k \in 1..Len(rows) |-> CellTexts(rows[k])]

\* lines 582-598: the table built from the rows, or nothing
BuildTable(rows, table_data, max_cols) ==
    IF rows = <<>> \/ max_cols = 0 THEN <<>>
    ELSE <<[kind |-> "table", level |-> 0, style |-> "Light Grid Accent 1",
            runs |-> <<>>,
            rows |-> [k \in 1..Len(rows) |->
                        TableRow(table_data[k], IsHeaderRow(rows[k]), k, max_cols)]]>>

TableOfData(rows, table_data) == BuildTable(rows, table_data, MaxLen(table_data))

TableOfRows(rows) == TableOfData(rows, TableData(rows))

\* the contents of the matched <tr> elements
RowsOf(table_html, ms) == [k \in 1..Len(ms) |-> Group(table_html, ms[k], 1)]

\* _parse_table_html: the blocks it adds to the document (one table or nothing)
ParseTableHtml(table_html) ==
    TableOfRows(RowsOf(table_html, ReFindAll(PairTag(<<"t", "r">>), table_html)))

(***************************************************************************)
(* _simple_html_parse: the rewriting of the HTML into sentinel lines        *)
(***************************************************************************)
DigitOf == <<"0", "1", "2", "3", "4", "5", "6", "7", "8", "9">>

\* f'__TABLE_{k}__', k < 10
Placeholder(k) == US \o <<"T", "A", "B", "L", "E", "_">> \o <<DigitOf[k + 1]>> \o US

RECURSIVE CutTables(_, _, _)
\* the loop over re.finditer(table_pattern, html_content): the matches are those
\* of the text the loop started with, and each one's start and end are used to
\* cut the text as it is by then
CutTables(html, ms, k) ==
    IF k > Len(ms) THEN html
    ELSE CutTables(Take(html, ms[k].b - 1) \o Placeholder(k - 1) \o Drop(html, ms[k].e - 1),
                   ms, k + 1)

TableMatches(html) == ReFindAll(PairTag(<<"t", "a", "b", "l", "e">>), html)

MatchTexts(html, ms) == [k \in 1..Len(ms) |-> Slice(html, ms[k].b, ms[k].e)]

\* the list tables: the text of each match
TablesOf(html) == MatchTexts(html, TableMatches(html))

ExtractTables(html) == CutTables(html, TableMatches(html), 1)

Wrap(a, g, b) == <<TL(a), TG(g), TL(b)>>

\* the substitutions of lines 317-343, in their order
RewriteLists(h) ==
    ReSub(CloseTag(<<"o", "l">>), <<TL(<<"\n">> \o Mark(W_OL_END) \o <<"\n">>)>>,
    ReSub(OpenTag(<<"o", "l">>), <<TL(<<"\n">> \o Mark(W_OL_START) \o <<"\n">>)>>,
    ReSub(CloseTag(<<"u", "l">>), <<TL(<<"\n">> \o Mark(W_UL_END) \o <<"\n">>)>>,
    ReSub(OpenTag(<<"u", "l">>), <<TL(<<"\n">> \o Mark(W_UL_START) \o <<"\n">>)>>, h))))

RewriteHeadings(h) ==
    ReSub(PairTag(<<"h", "4">>), Wrap(S_H("4"), 1, S_EH("4")),
    ReSub(PairTag(<<"h", "3">>), Wrap(S_H("3"), 1, S_EH("3")),
    ReSub(PairTag(<<"h", "2">>), Wrap(S_H("2"), 1, S_EH("2")),
    ReSub(PairTag(<<"h", "1">>), Wrap(S_H("1"), 1, S_EH("1")), h))))

RewriteBlocks(h) ==
    ReSub(PairTag(<<"l", "i">>), Wrap(S_LI, 1, S_ELI),
    ReSub(PairTag(<<"p">>), Wrap(S_P, 1, S_EP), h))

RewriteInline(h) ==
    ReSub(PairTag(<<"i">>), Wrap(S_ITALIC, 1, S_EITALIC),
    ReSub(PairTag(<<"e", "m">>), Wrap(S_ITALIC, 1, S_EITALIC),
    ReSub(PairTag(<<"b">>), Wrap(S_BOLD, 1, S_EBOLD),
    ReSub(PairTag(<<"s", "t", "r", "o", "n", "g">>), Wrap(S_BOLD, 1, S_EBOLD), h))))

\* <[^>]+>
AnyTag == <<Lit(<<"<">>), Cls({">"}, TRUE, 1, Inf, FALSE), Lit(<<">">>)>>

StripTags(h) == Unescape(ReSub(AnyTag, <<>>, h))

RECURSIVE RestoreTables(_, _, _)
\* html_content.replace(f'__TABLE_{idx}__', table_html) for each table
RestoreTables(html, tables, k) ==
    IF k > Len(tables) THEN html
    ELSE RestoreTables(Replace(html, Placeholder(k - 1), tables[k]), tables, k + 1)

(***************************************************************************)
(* _simple_html_parse: the loop over the lines                              *)
(***************************************************************************)
MkHeading(level, t) ==
    [kind |-> "heading", level |-> level, style |-> "Heading", runs |-> <<MkRun(t, FALSE, FALSE)>>,
     rows |-> <<>>]

MkPara(style, runs) ==
    [kind |-> "para", level |-> 0, style |-> style, runs |-> runs, rows |-> <<>>]

\* __(P|/P|LI|/LI|UL_START|UL_END|OL_START|OL_END)__
HeadingCleanup ==
    <<Lit(US),
      Alt(<< <<Lit(<<"P">>)>>, <<Lit(<<"/", "P">>)>>,
             <<Lit(<<"L", "I">>)>>, <<Lit(<<"/", "L", "I">>)>>,
             <<Lit(W_UL_START)>>, <<Lit(W_UL_END)>>,
             <<Lit(W_OL_START)>>, <<Lit(W_OL_END)>> >>),
      Lit(US)>>

\* __(P|/P|H[1-6]|/H[1-6]|UL_START|UL_END|OL_START|OL_END)__
ListItemCleanup ==
    <<Lit(US),
      Alt(<< <<Lit(<<"P">>)>>, <<Lit(<<"/", "P">>)>>,
             <<Lit(<<"H">>), One(Digits16)>>, <<Lit(<<"/", "H">>), One(Digits16)>>,
             <<Lit(W_UL_START)>>, <<Lit(W_UL_END)>>,
             <<Lit(W_OL_START)>>, <<Lit(W_OL_END)>> >>),
      Lit(US)>>

\* __(LI|/LI|H[1-6]|/H[1-6]|UL_START|UL_END|OL_START|OL_END)__
ParagraphCleanup ==
    <<Lit(US),
      Alt(<< <<Lit(<<"L", "I">>)>>, <<Lit(<<"/", "L", "I">>)>>,
             <<Lit(<<"H">>), One(Digits16)>>, <<Lit(<<"/", "H">>), One(Digits16)>>,
             <<Lit(W_UL_START)>>, <<Lit(W_UL_END)>>,
             <<Lit(W_OL_START)>>, <<Lit(W_OL_END)>> >>),
      Lit(US)>>

\* re.sub(r'__X__|__/X__', '', line)
Without(line, a, b) == ReSub(<<Alt(<< <<Lit(a)>>, <<Lit(b)>> >>)>>, <<>>, line)

HeadingText(line, n) == Strip(ReSub(HeadingCleanup, <<>>, Without(line, S_H(n), S_EH(n))))

ListItemText(line) == Strip(ReSub(ListItemCleanup, <<>>, Without(line, S_LI, S_ELI)))

ParagraphText(line) == Strip(ReSub(ParagraphCleanup, <<>>, Without(line, S_P, S_EP)))

\* '__TABLE_' in line or '<table' in line.lower()
IsTableLine(line) == Contains(line, US \o <<"T", "A", "B", "L", "E", "_">>) \/ Contains(Lower(line), <<"<", "t", "a", "b", "l", "e">>)

HasTableEnd(line) == Contains(line, <<"<", "/", "t", "a", "b", "l", "e", ">">>)

RECURSIVE TableScan(_, _)
\* the inner while: the first j at which it stops
TableScan(lines, j) ==
    IF j <= Len(lines) /\ (Contains(lines[j], US \o <<"T", "A", "B", "L", "E", "_">>) \/ ~HasTableEnd(lines[j]))
    THEN TableScan(lines, j + 1)
    ELSE j

\* the branch of the if/elif chain a line takes
LineKind(line) ==
    IF IsTableLine(line) THEN "table"
    ELSE IF Contains(line, S_H("1")) THEN "h1"
    ELSE IF Contains(line, S_H("2")) THEN "h2"
    ELSE IF Contains(line, S_H("3")) THEN "h3"
    ELSE IF Contains(line, S_H("4")) THEN "h4"
    ELSE IF Contains(line, Mark(W_UL_START)) THEN "ul_start"
    ELSE IF Contains(line, Mark(W_UL_END)) \/ Contains(line, Mark(W_OL_END)) THEN "list_end"
    ELSE IF Contains(line, Mark(W_OL_START)) THEN "ol_start"
    ELSE IF Contains(line, S_LI) THEN "li"
    ELSE IF Contains(line, S_P) THEN "p"
    ELSE IF Strip(line) # <<>> /\ ~StartsWith(line, US) THEN "text"
    ELSE IF Strip(line) = <<>> THEN "blank"
    ELSE "none"

HeadingLevel == [h1 |-> 1, h2 |-> 2, h3 |-> 3, h4 |-> 4]

HeadingDigit == [h1 |-> "1", h2 |-> "2", h3 |-> "3", h4 |-> "4"]

\* the state of the loop: i (1-based), in_list, list_style ("" is None),
\* last_was_empty, the blocks of the document, and whether the loop raised
LoopStart ==
    [i |-> 1, in_list |-> FALSE, list_style |-> "", last_was_empty |-> FALSE,
     doc |-> <<>>, raised |-> FALSE]

Advance(st) == [st EXCEPT !.i = st.i + 1]

\* lines 360-373: the table's lines are collected up to the line j on which the
\* inner while stopped and given to _parse_table_html; lines[j] past the last
\* line raises
TableUpTo(lines, st, j) ==
    IF j > Len(lines) THEN [st EXCEPT !.raised = TRUE]
    ELSE [st EXCEPT !.i = j + 1, !.last_was_empty = FALSE,
                    !.doc = st.doc \o ParseTableHtml(
                               JoinWith(SubSeq(lines, st.i, j), <<"\n">>))]

TableStep(lines, st) == TableUpTo(lines, st, TableScan(lines, st.i + 1))

\* lines 376-399: a heading with the text left after the clean-up
HeadingWith(st, level, text) ==
    IF text # <<>>
    THEN [Advance(st) EXCEPT !.doc = Append(st.doc, MkHeading(level, text)),
                             !.last_was_empty = FALSE]
    ELSE Advance(st)

HeadingStep(line, st, kind) ==
    HeadingWith(st, HeadingLevel[kind], HeadingText(line, HeadingDigit[kind]))

\* lines 401-412: the markers that open and close a list
ListBoundaryStep(st, kind) ==
    CASE kind = "ul_start" ->
           [Advance(st) EXCEPT !.in_list = TRUE, !.list_style = "List Bullet",
                               !.last_was_empty = FALSE]
      [] kind = "ol_start" ->
           [Advance(st) EXCEPT !.in_list = TRUE, !.list_style = "List Number",
                               !.last_was_empty = FALSE]
      [] OTHER ->
           [Advance(st) EXCEPT !.in_list = FALSE, !.list_style = "",
                               !.last_was_empty = FALSE]

\* a paragraph of the given style with the runs of text, if there is any text
ParaWith(st, style, text) ==
    IF text # <<>>
    THEN [Advance(st) EXCEPT
            !.doc = Append(st.doc, MkPara(style, AddFormattedTextFromHtml(text))),
            !.last_was_empty = FALSE]
    ELSE Advance(st)

\* lines 413-421
ListItemStep(line, st) ==
    ParaWith(st, IF st.list_style # "" THEN st.list_style ELSE "List Bullet",
             ListItemText(line))

\* lines 423-431
ParagraphStep(line, st) == ParaWith(st, "", ParagraphText(line))

\* lines 433-436: a line of text outside any marker
TextStep(line, st) == ParaWith(st, "", Strip(line))

\* lines 438-443: an empty line
BlankStep(st) ==
    IF ~st.last_was_empty /\ ~st.in_list
    THEN [Advance(st) EXCEPT !.last_was_empty = TRUE]
    ELSE Advance(st)

(***************************************************************************)
(* _fix_broken_lists of document_converter.py: a bold label followed by     *)
(* "- item" lines that the renderer left in a paragraph becomes a list.     *)
(***************************************************************************)
\* <p><strong>
LabelOpen == <<"<", "p", ">", "<", "s", "t", "r", "o", "n", "g", ">">>

\* [^<]+
LabelText == Cls({"<"}, TRUE, 1, Inf, FALSE)

\* \s*\n
LineEnd == <<Cls(Space, FALSE, 0, Inf, FALSE), Lit(<<"\n">>)>>

\* [^\n]+
ItemText == Cls({"\n"}, TRUE, 1, Inf, FALSE)

\* (?:- [^\n]+\n?)+
ItemLines == Rep(<<Lit(<<"-", " ">>), ItemText, Cls({"\n"}, FALSE, 0, 1, FALSE)>>, 1)

\* <p><strong>([^<]+):</strong>\s*\n((?:- [^\n]+\n?)+)</p>
pattern1 ==
    <<Lit(LabelOpen), GS(1), LabelText, GE(1), Lit(<<":", "<", "/", "s", "t", "r", "o", "n", "g", ">">>)>>
    \o LineEnd \o <<GS(2), ItemLines, GE(2), Lit(<<"<", "/", "p", ">">>)>>

\* pattern 2 without its lookahead: the item lines need no boundary after them
pattern2Unbounded ==
    <<GS(1), Lit(LabelOpen), GS(2), LabelText, GE(2),
      Lit(<<":", "<", "/", "s", "t", "r", "o", "n", "g", ">", "<", "/", "p", ">">>), GE(1)>>
    \o LineEnd \o <<GS(3), ItemLines, GE(3)>>

\* (<p><strong>([^<]+):</strong></p>)\s*\n((?:- [^\n]+\n?)+)(?=\n\n|<p>|<h|<div)
pattern2 ==
    <<GS(1), Lit(LabelOpen), GS(2), LabelText, GE(2),
      Lit(<<":", "<", "/", "s", "t", "r", "o", "n", "g", ">", "<", "/", "p", ">">>), GE(1)>>
    \o LineEnd
    \o <<GS(3), ItemLines, GE(3),
         La(<<Alt(<< <<Lit(<<"\n", "\n">>)>>, <<Lit(<<"<", "p", ">">>)>>,
                     <<Lit(<<"<", "h">>)>>, <<Lit(<<"<", "d", "i", "v">>)>> >>)>>)>>

\* re.findall(r'- ([^\n]+)', list_items)
ItemsOf(list_items, ms) == [k \in 1..Len(ms) |-> Group(list_items, ms[k], 1)]

ListItems(list_items) ==
    ItemsOf(list_items, ReFindAll(<<Lit(<<"-", " ">>), GS(1), ItemText, GE(1)>>, list_items))

\* a list_html whose items keep the white space around them
ListHtmlUnstripped(header_tag, items) ==
    header_tag \o <<"\n", "<", "u", "l", ">", "\n">>
    \o Flatten([k \in 1..Len(items) |-> <<" ", " ", "<", "l", "i", ">">> \o items[k] \o <<"<", "/", "l", "i", ">", "\n">>])
    \o <<"<", "/", "u", "l", ">">>

\* list_html: the header paragraph, then one <li> per item, stripped
ListHtml(header_tag, items) ==
    header_tag \o <<"\n", "<", "u", "l", ">", "\n">>
    \o Flatten([k \in 1..Len(items) |->
                   <<" ", " ", "<", "l", "i", ">">> \o Strip(items[k]) \o <<"<", "/", "l", "i", ">", "\n">>])
    \o <<"<", "/", "u", "l", ">">>

replace_with_list1(s, m) ==
    ListHtml(LabelOpen \o Group(s, m, 1) \o <<":", "<", "/", "s", "t", "r", "o", "n", "g", ">", "<", "/", "p", ">">>, ListItems(Group(s, m, 2)))

replace_with_list2(s, m) == ListHtml(Group(s, m, 1), ListItems(Group(s, m, 3)))

ReplaceWithList(n, s, m) ==
    IF n = 1 THEN replace_with_list1(s, m) ELSE replace_with_list2(s, m)

RECURSIVE SubListsFrom(_, _, _, _)
\* the text from i on, the next match m replaced by its list
SubListsMatch(ns, n, s, i, m) ==
    IF ~m.ok THEN Slice(s, i, Len(s) + 1)
    ELSE Slice(s, i, m.b) \o ReplaceWithList(n, s, m) \o SubListsFrom(ns, n, s, m.e)

\* re.sub(pattern<n>, replace_with_list<n>, s) from position i on
SubListsFrom(ns, n, s, i) ==
    IF i > Len(s) + 1 THEN <<>> ELSE SubListsMatch(ns, n, s, i, ReSearch(ns, s, i))

\* _fix_broken_lists: pattern 2 first, then pattern 1
FixBrokenLists(html_content) ==
    SubListsFrom(pattern1, 1, SubListsFrom(pattern2, 2, html_content, 1), 1)

(***************************************************************************)
(* markdown_to_docx: the metadata map, the properties of the document and   *)
(* the blocks written before the body.  A value of the map is a string, a   *)
(* date object or None; a key the map does not hold is outside its DOMAIN.  *)
(***************************************************************************)
Str(t) == [type |-> "str", text |-> t, ymd |-> <<>>]

DateObj(y, m, d) == [type |-> "date", text |-> <<>>, ymd |-> <<y, m, d>>]

None == [type |-> "none", text |-> <<>>, ymd |-> <<>>]

\* metadata.get(key)
Get(metadata, key) == IF key \in DOMAIN metadata THEN metadata[key] ELSE None

\* the truth value of v: a date object is true, a string when it is not empty
Truthy(v) == v.type = "date" \/ (v.type = "str" /\ v.text # <<>>)

DigitSet == {DigitOf[k] : k \in 1..10}

DigitValue(ch) == (CHOOSE k \in 1..10 : DigitOf[k] = ch) - 1

RECURSIVE ToInt(_)
\* int(t) of a text of digits
ToInt(t) == IF t = <<>> THEN 0 ELSE 10 * ToInt(SubSeq(t, 1, Len(t) - 1)) + DigitValue(t[Len(t)])

\* the decimal digits of n, at least two of them
TwoDigits(n) == <<DigitOf[((n \div 10) % 10) + 1], DigitOf[(n % 10) + 1]>>

FourDigits(n) == TwoDigits(n \div 100) \o TwoDigits(n % 100)

\* str(v) in an f-string: a date object is written as YYYY-MM-DD
FString(v) ==
    CASE v.type = "str" -> v.text
      [] v.type = "date" ->
           FourDigits(v.ymd[1]) \o <<"-">> \o TwoDigits(v.ymd[2]) \o <<"-">> \o TwoDigits(v.ymd[3])
      [] OTHER -> <<"N", "o", "n", "e">>

\* the directives of strptime: %Y is \d\d\d\d (group 1)
DirectiveY == <<GS(1), Cls(DigitSet, FALSE, 4, 4, FALSE), GE(1)>>

\* %m is 1[0-2]|0[1-9]|[1-9] (group 2)
DirectiveM ==
    <<GS(2),
      Alt(<< <<Lit(<<"1">>), One({"0", "1", "2"})>>,
             <<Lit(<<"0">>), One(DigitSet \ {"0"})>>,
             <<One(DigitSet \ {"0"})>> >>),
      GE(2)>>

\* %d is 3[0-1]|[1-2]\d|0[1-9]|[1-9]| [1-9] (group 3)
DirectiveD ==
    <<GS(3),
      Alt(<< <<Lit(<<"3">>), One({"0", "1"})>>,
             <<One({"1", "2"}), One(DigitSet)>>,
             <<Lit(<<"0">>), One(DigitSet \ {"0"})>>,
             <<One(DigitSet \ {"0"})>>,
             <<Lit(<<" ">>), One(DigitSet \ {"0"})>> >>),
      GE(3)>>

\* '%Y-%m-%d', '%d.%m.%Y', '%d/%m/%Y'
DateFormats ==
    << DirectiveY \o <<Lit(<<"-">>)>> \o DirectiveM \o <<Lit(<<"-">>)>> \o DirectiveD,
       DirectiveD \o <<Lit(<<".">>)>> \o DirectiveM \o <<Lit(<<".">>)>> \o DirectiveY,
       DirectiveD \o <<Lit(<<"/">>)>> \o DirectiveM \o <<Lit(<<"/">>)>> \o DirectiveY >>

IsLeap(y) == y % 4 = 0 /\ (y % 100 # 0 \/ y % 400 = 0)

DaysIn(y, m) ==
    IF m = 2 THEN (IF IsLeap(y) THEN 29 ELSE 28)
    ELSE IF m \in {4, 6, 9, 11} THEN 30 ELSE 31

\* datetime(y, m, d): None stands for the ValueError of a date that does not exist
DateTime(y, m, d) ==
    IF y >= 1 /\ m \in 1..12 /\ d \in 1..DaysIn(y, m) THEN DateObj(y, m, d) ELSE None

\* the date of a match of the format: the whole text has to be converted
DateOfMatch(word, m) ==
    IF ~m.ok \/ m.e # Len(word) + 1 THEN None
    ELSE DateTime(ToInt(Group(word, m, 1)), ToInt(LStrip(Group(word, m, 2))),
                  ToInt(LStrip(Group(word, m, 3))))

\* datetime.strptime(word, fmt), None for a ValueError
Strptime(word, fmt) == DateOfMatch(word, ReMatch(fmt, word, 1, NoCaps))

RECURSIVE Words(_)
\* str.split(): the words between runs of whitespace
Words(s) ==
    IF LStrip(s) = <<>> THEN <<>>
    ELSE LET t == LStrip(s)
             n == IF \E j \in 1..Len(t) : t[j] \in Space
                  THEN (CHOOSE j \in 1..Len(t) :
                            t[j] \in Space /\ \A l \in 1..(j - 1) : t[l] \notin Space) - 1
                  ELSE Len(t)
         IN <<SubSeq(t, 1, n)>> \o Words(SubSeq(t, n + 1, Len(t)))

\* date_str as it is, the time of day not cut off
WholeText(date_str) == date_str

\* date_str.split()[0]
FirstWord(date_str) == Words(date_str)[1]

RECURSIVE FirstParsed(_, _, _)
\* lines 164-170: the formats are tried in their order, the first that parses
\* is assigned; date_str.split()[0] raises on a text without a word, and the
\* bare except goes on to the next format
FirstParsed(date_str, fmts, k) ==
    IF k > Len(fmts) \/ Words(date_str) = <<>> THEN None
    ELSE IF Strptime(FirstWord(date_str), fmts[k]).type = "date"
    THEN Strptime(FirstWord(date_str), fmts[k])
    ELSE FirstParsed(date_str, fmts, k + 1)

\* the core properties of a new document; None is a property not set
NoProps == [title |-> None, author |-> None, created |-> None]

\* lines 154-155
WithTitle(props, metadata) ==
    IF Truthy(Get(metadata, "title")) THEN [props EXCEPT !.title = metadata["title"]]
    ELSE props

\* lines 156-157
WithAuthor(props, metadata) ==
    IF Truthy(Get(metadata, "organization"))
    THEN [props EXCEPT !.author = Get(metadata, "organization")]
    ELSE props

\* lines 158-172
WithCreated(props, metadata) ==
    IF Truthy(Get(metadata, "date")) /\ metadata["date"].type = "str"
       /\ FirstParsed(metadata["date"].text, DateFormats, 1).type = "date"
    THEN [props EXCEPT !.created = FirstParsed(metadata["date"].text, DateFormats, 1)]
    ELSE props

\* lines 176-177: a heading of level 1, centered
TitleHeading(t) ==
    [kind |-> "heading", level |-> 1, style |-> "Heading", runs |-> <<MkRun(t, FALSE, FALSE)>>,
     rows |-> <<>>, alignment |-> "CENTER"]

\* lines 175-177
WithTitleHeading(doc, metadata) ==
    IF Truthy(Get(metadata, "title")) THEN Append(doc, TitleHeading(FString(metadata["title"])))
    ELSE doc

\* the labels of the technical data, in the order of lines 182-193
TechLabels ==
    << <<"organization", <<"o", "r", "g", "a", "n", "i", "z", "a", "c", "i", "a", ":", " ">>>>,
       <<"department", <<"o", "t", "d", "e", "l", ":", " ">>>>,
       <<"type", <<"t", "i", "p", " ", "d", "o", "k", "u", "m", "e", "n", "t", "a", ":", " ">>>>,
       <<"number", <<"n", "o", "m", "e", "r", ":", " ">>>>,
       <<"date", <<"d", "a", "t", "a", ":", " ">>>>,
       <<"status", <<"s", "t", "a", "t", "u", "s", ":", " ">>>> >>

RECURSIVE TechDataUnskipped(_, _)
\* tech_data with a line for every label, blank for a field that is not there
TechDataUnskipped(metadata, k) ==
    IF k > Len(TechLabels) THEN <<>>
    ELSE <<TechLabels[k][2] \o (IF Truthy(Get(metadata, TechLabels[k][1]))
                                THEN FString(metadata[TechLabels[k][1]]) ELSE <<>>)>>
         \o TechDataUnskipped(metadata, k + 1)

RECURSIVE TechData(_, _)
\* lines 181-193: tech_data, from the k-th label on
TechData(metadata, k) ==
    IF k > Len(TechLabels) THEN <<>>
    ELSE (IF Truthy(Get(metadata, TechLabels[k][1]))
          THEN <<TechLabels[k][2] \o FString(metadata[TechLabels[k][1]])>>
          ELSE <<>>)
         \o TechData(metadata, k + 1)

\* lines 196-198: the paragraph of the technical data and the empty paragraph
TechBlocks(tech_data) ==
    IF tech_data # <<>>
    THEN <<MkPara("List Bullet", <<MkRun(JoinWith(tech_data, <<"\n">>), FALSE, FALSE)>>),
           MkPara("", <<>>)>>
    ELSE <<>>

\* paragraph.alignment
AlignmentOf(block) == IF "alignment" \in DOMAIN block THEN block.alignment ELSE ""

(***************************************************************************)
(* docx_to_markdown.  A document read from a file has paragraphs (text,     *)
(* style name, alignment), tables (rows of cell texts) and core properties; *)
(* the metadata is a dict, here the sequence of its (key, value) pairs in   *)
(* the order they were set.                                                 *)
(***************************************************************************)
\* the decimal digits of n < 100, without a leading zero
Decimal(n) == IF n < 10 THEN <<DigitOf[n + 1]>> ELSE TwoDigits(n)

\* the date with the month and the day not padded to two digits
StrftimeUnpadded(date) ==
    FourDigits(date.ymd[1]) \o <<"-">> \o Decimal(date.ymd[2]) \o <<"-">> \o Decimal(date.ymd[3])

\* created.strftime('%Y-%m-%d')
Strftime(date) ==
    FourDigits(date.ymd[1]) \o <<"-">> \o TwoDigits(date.ymd[2]) \o <<"-">> \o TwoDigits(date.ymd[3])

\* lines 59-66, one property: the key is set when the property is true
WithKey(metadata, key, v, text) == IF Truthy(v) THEN Append(metadata, <<key, text>>) ELSE metadata

\* lines 56-66
PropertiesMetadata(props) ==
    WithKey(WithKey(WithKey(WithKey(<<>>,
        <<"t", "i", "t", "l", "e">>, props.title, props.title.text),
        <<"a", "u", "t", "h", "o", "r">>, props.author, props.author.text),
        <<"d", "a", "t", "e">>, props.created, Strftime(props.created)),
        <<"m", "o", "d", "i", "f", "i", "e", "d">>, props.modified, Strftime(props.modified))

\* f'# {text}' with level marks
HeadingMarks(level) == [k \in 1..level |-> "#"] \o <<" ">>

\* 'Heading N' in style_name
IsHeadingStyle(style_name, n) == Contains(style_name, <<"H", "e", "a", "d", "i", "n", "g", " ">> \o <<DigitOf[n + 1]>>)

\* lines 80-91: the line of a paragraph with the text text
StyledLine(paragraph, text) ==
    IF IsHeadingStyle(paragraph.style, 1) \/ paragraph.style = <<"T", "i", "t", "l", "e">>
    THEN HeadingMarks(1) \o text
    ELSE IF IsHeadingStyle(paragraph.style, 2) THEN HeadingMarks(2) \o text
    ELSE IF IsHeadingStyle(paragraph.style, 3) THEN HeadingMarks(3) \o text
    ELSE IF IsHeadingStyle(paragraph.style, 4) THEN HeadingMarks(4) \o text
    ELSE IF paragraph.alignment = "CENTER"
    THEN <<"<", "c", "e", "n", "t", "e", "r", ">">> \o text \o <<"<", "/", "c", "e", "n", "t", "e", "r", ">">>
    ELSE text

\* lines 72-91: what is appended to content_lines for a paragraph
ParagraphLine(paragraph) ==
    IF Strip(paragraph.text) = <<>> THEN <<>> ELSE StyledLine(paragraph, Strip(paragraph.text))

\* '| ' + ' | '.join(cells) + ' |'
RowLine(cells) == <<"|", " ">> \o JoinWith(cells, <<" ", "|", " ">>) \o <<" ", "|">>

\* [cell.text.strip() for cell in row.cells]
StrippedCells(row) == [k \in 1..Len(row) |-> Strip(row[k])]

\* the lines of a table with a separator of one cell
TableLinesNarrowSeparator(table) ==
    <<<<>>>>
    \o (IF table # <<>>
        THEN <<RowLine(StrippedCells(table[1])), RowLine(<<<<"-", "-", "-">>>>)>>
             \o [r \in 1..(Len(table) - 1) |-> RowLine(StrippedCells(table[r + 1]))]
        ELSE <<>>)
    \o <<<<>>>>

\* lines 95-107: what is appended to content_lines for a table
TableContentLines(table) ==
    <<<<>>>>
    \o (IF table # <<>>
        THEN <<RowLine(StrippedCells(table[1])),
               RowLine([k \in 1..Len(table[1]) |-> <<"-", "-", "-">>])>>
             \o [r \in 1..(Len(table) - 1) |-> RowLine(StrippedCells(table[r + 1]))]
        ELSE <<>>)
    \o <<<<>>>>

\* lines 113-117: the lines of the front matter
YamlLines(metadata) ==
    <<<<"-", "-", "-">>>>
    \o [k \in 1..Len(metadata) |-> metadata[k][1] \o <<":", " ">> \o metadata[k][2]]
    \o <<<<"-", "-", "-">>, <<>>>>

\* lines 109-120
MarkdownOf(content_lines, metadata, include_metadata) ==
    IF include_metadata /\ metadata # <<>>
    THEN JoinWith(YamlLines(metadata), <<"\n">>) \o JoinWith(content_lines, <<"\n">>)
    ELSE JoinWith(content_lines, <<"\n">>)

(***************************************************************************)
(* State.  Each specification below drives one group of variables and       *)
(* leaves the others as they are.                                           *)
(***************************************************************************)
VARIABLES
    rr_toks,    \* run reconstructor: the line, as the tokens it was built from
    rr_parts,   \* the parts re.split gave
    rr_i,       \* the index of the next part
    rr_runs,    \* the runs of the paragraph
    rr_pc,      \* "start", "loop", "done"
    sp_blocks,  \* _simple_html_parse: the blocks the HTML was built from
    sp_html,    \* html_content
    sp_tables,  \* tables
    sp_lines,   \* lines
    sp_st,      \* the loop's variables and the document
    sp_pc,      \* the statement _simple_html_parse is at, "done" or "raised"
    tb_in,      \* _parse_table_html: the rows and cells table_html was built from
    tb_html,    \* table_html
    tb_rows,    \* rows
    tb_data,    \* table_data: the cell texts of the rows scanned so far
    tb_max,     \* max_cols
    tb_doc,     \* the document: empty, or the one table
    tb_k,       \* row_idx + 1 of the row to fill next
    tb_pc,      \* "rows", "scan", "fill", "done"
    fl_in,      \* _fix_broken_lists: what html_content was built from
    fl_html,    \* html_content
    fl_pc,      \* "pattern2", "pattern1", "return", "done"
    ex_in,      \* markdown_to_docx: what the renderer's HTML was built from
    ex_meta,    \* metadata
    ex_opts,    \* include_metadata and include_technical
    ex_props,   \* doc.core_properties
    ex_doc,     \* doc, up to the call of _simple_html_parse
    ex_html,    \* html_content
    ex_pc,      \* the statement markdown_to_docx is at, "saved" or "raised"
    dm_doc,     \* docx_to_markdown: the document read from docx_path
    dm_opts,    \* include_metadata
    dm_meta,    \* metadata
    dm_lines,   \* content_lines
    dm_k,       \* the index of the next paragraph or table
    dm_out,     \* the text returned
    dm_pc,      \* "metadata", "paragraphs", "tables", "return", "done"
    rt_in,      \* the round trip: what the first document was built from
    rt_first,   \* the Markdown of the first document
    rt_pc,      \* "first", "assemble", "second"
    mh_in,      \* markdown_to_html: what the call was built from
    mh_heap,    \* the dicts: the caller's (metadata) and the one made by copy()
    mh_formatted_metadata, \* the dict formatted_metadata names, "" when not bound
    mh_html,    \* html_content
    mh_title,   \* title
    mh_out,     \* what is returned: the content, or the arguments of the template
    mh_pc,      \* the statement markdown_to_html is at, "done" or "raised"
    xp_doc,     \* export_docx: the document each request asks for
    xp_tmp,     \* the files of the directory tmp, by name
    xp_open,    \* the requests that have the file of a name open for writing
    xp_resp,    \* the response of each request
    xp_pc,      \* the statement each request is at
    vt_file,    \* VersionTracker: the document file, what it holds
    vt_history, \* the history file of the document
    vt_versions, \* the version files of the document, by version number
    vt_calls,   \* the call of each caller: its arguments, its locals, its result
    vt_log,     \* the changes recorded so far: what each completed call recorded
    dp_files,   \* DocumentParser: the entries of the documents directory, in the order rglob gives them
    dp_args,    \* the criteria of filter_documents
    dp_documents, \* documents
    dp_k,       \* the index of the next file or document
    dp_filtered, \* filtered
    dp_pc       \* "scan", "filter", "return", "done"

rrVars == <<rr_toks, rr_parts, rr_i, rr_runs, rr_pc>>

spVars == <<sp_blocks, sp_html, sp_tables, sp_lines, sp_st, sp_pc>>

tbVars == <<tb_in, tb_html, tb_rows, tb_data, tb_max, tb_doc, tb_k, tb_pc>>

flVars == <<fl_in, fl_html, fl_pc>>

exVars == <<ex_in, ex_meta, ex_opts, ex_props, ex_doc, ex_html, ex_pc>>

dmVars == <<dm_doc, dm_opts, dm_meta, dm_lines, dm_k, dm_out, dm_pc>>

rtVars == <<rt_in, rt_first, rt_pc>>

mhVars == <<mh_in, mh_heap, mh_formatted_metadata, mh_html, mh_title, mh_out, mh_pc>>

xpVars == <<xp_doc, xp_tmp, xp_open, xp_resp, xp_pc>>

vtVars == <<vt_file, vt_history, vt_versions, vt_calls, vt_log>>

dpVars == <<dp_files, dp_args, dp_documents, dp_k, dp_filtered, dp_pc>>

vars == <<rrVars, spVars, tbVars, flVars, exVars, dmVars, rtVars, mhVars, xpVars, vtVars, dpVars>>

rrIdle == rr_toks = <<>> /\ rr_parts = <<>> /\ rr_i = 0 /\ rr_runs = <<>> /\ rr_pc = "idle"

spIdle ==
    /\ sp_blocks = <<>> /\ sp_html = <<>> /\ sp_tables = <<>> /\ sp_lines = <<>>
    /\ sp_st = LoopStart /\ sp_pc = "idle"

tbIdle ==
    /\ tb_in = <<>> /\ tb_html = <<>> /\ tb_rows = <<>> /\ tb_data = <<>>
    /\ tb_max = 0 /\ tb_doc = <<>> /\ tb_k = 0 /\ tb_pc = "idle"

flIdle == fl_in = <<>> /\ fl_html = <<>> /\ fl_pc = "idle"

exIdle ==
    /\ ex_in = <<>> /\ ex_meta = <<>> /\ ex_opts = <<>> /\ ex_props = <<>> /\ ex_doc = <<>>
    /\ ex_html = <<>> /\ ex_pc = "idle"

dmIdle ==
    /\ dm_doc = <<>> /\ dm_opts = <<>> /\ dm_meta = <<>> /\ dm_lines = <<>> /\ dm_k = 0
    /\ dm_out = <<>> /\ dm_pc = "idle"

rtIdle == rt_in = <<>> /\ rt_first = <<>> /\ rt_pc = "idle"

mhIdle ==
    /\ mh_in = <<>> /\ mh_heap = <<>> /\ mh_formatted_metadata = "" /\ mh_html = <<>>
    /\ mh_title = <<>> /\ mh_out = <<>> /\ mh_pc = "idle"

xpIdle ==
    xp_doc = <<>> /\ xp_tmp = <<>> /\ xp_open = <<>> /\ xp_resp = <<>> /\ xp_pc = <<>>

vtIdle ==
    vt_file = <<>> /\ vt_history = <<>> /\ vt_versions = <<>> /\ vt_calls = <<>> /\ vt_log = <<>>

dpIdle ==
    dp_files = <<>> /\ dp_args = <<>> /\ dp_documents = <<>> /\ dp_k = 0 /\ dp_filtered = <<>> /\ dp_pc = "idle"

\* the variables the other functions drive
rrOthers == <<spVars, tbVars, flVars, exVars, dmVars, rtVars, mhVars, xpVars, vtVars, dpVars>>

spOthers == <<rrVars, tbVars, flVars, exVars, dmVars, rtVars, mhVars, xpVars, vtVars, dpVars>>

tbOthers == <<rrVars, spVars, flVars, exVars, dmVars, rtVars, mhVars, xpVars, vtVars, dpVars>>

flOthers == <<rrVars, spVars, tbVars, exVars, dmVars, rtVars, mhVars, xpVars, vtVars, dpVars>>

exOthers == <<rrVars, tbVars, flVars, dmVars, rtVars, mhVars, xpVars, vtVars, dpVars>>

dmOthers == <<rrVars, spVars, tbVars, flVars, exVars, rtVars, mhVars, xpVars, vtVars, dpVars>>

rtOthers == <<rrVars, tbVars, flVars, mhVars, xpVars, vtVars, dpVars>>

rrOthersIdle == spIdle /\ tbIdle /\ flIdle /\ exIdle /\ dmIdle /\ rtIdle /\ mhIdle /\ xpIdle /\ vtIdle /\ dpIdle

spOthersIdle == rrIdle /\ tbIdle /\ flIdle /\ exIdle /\ dmIdle /\ rtIdle /\ mhIdle /\ xpIdle /\ vtIdle /\ dpIdle

tbOthersIdle == rrIdle /\ spIdle /\ flIdle /\ exIdle /\ dmIdle /\ rtIdle /\ mhIdle /\ xpIdle /\ vtIdle /\ dpIdle

flOthersIdle == rrIdle /\ spIdle /\ tbIdle /\ exIdle /\ dmIdle /\ rtIdle /\ mhIdle /\ xpIdle /\ vtIdle /\ dpIdle

exOthersIdle == rrIdle /\ tbIdle /\ flIdle /\ dmIdle /\ rtIdle /\ mhIdle /\ xpIdle /\ vtIdle /\ dpIdle

dmOthersIdle == rrIdle /\ spIdle /\ tbIdle /\ flIdle /\ exIdle /\ rtIdle /\ mhIdle /\ xpIdle /\ vtIdle /\ dpIdle

rtOthersIdle == rrIdle /\ tbIdle /\ flIdle /\ mhIdle /\ xpIdle /\ vtIdle /\ dpIdle

\* markdown_to_html calls _fix_broken_lists
mhOthers == <<rrVars, spVars, tbVars, exVars, dmVars, rtVars, xpVars, vtVars, dpVars>>

mhOthersIdle == rrIdle /\ spIdle /\ tbIdle /\ exIdle /\ dmIdle /\ rtIdle /\ xpIdle /\ vtIdle /\ dpIdle

xpOthers == <<rrVars, spVars, tbVars, flVars, exVars, dmVars, rtVars, mhVars, vtVars, dpVars>>

xpOthersIdle == rrIdle /\ spIdle /\ tbIdle /\ flIdle /\ exIdle /\ dmIdle /\ rtIdle /\ mhIdle /\ vtIdle /\ dpIdle

vtOthers == <<rrVars, spVars, tbVars, flVars, exVars, dmVars, rtVars, mhVars, xpVars, dpVars>>

vtOthersIdle == rrIdle /\ spIdle /\ tbIdle /\ flIdle /\ exIdle /\ dmIdle /\ rtIdle /\ mhIdle /\ xpIdle /\ dpIdle

dpOthers == <<rrVars, spVars, tbVars, flVars, exVars, dmVars, rtVars, mhVars, xpVars, vtVars>>

dpOthersIdle == rrIdle /\ spIdle /\ tbIdle /\ flIdle /\ exIdle /\ dmIdle /\ rtIdle /\ mhIdle /\ xpIdle /\ vtIdle

(***************************************************************************)
(* The lines given to the run reconstructor.                                *)
(***************************************************************************)
MaxDepth == 3

MaxText == 3

MaxTokens == 3

RECURSIVE SeqsUpTo(_, _)
\* the sequences over S of length at most n
SeqsUpTo(S, n) ==
    IF n = 0 THEN {<<>>}
    ELSE LET shorter == SeqsUpTo(S, n - 1)
         IN shorter \cup {Append(q, x) : q \in shorter, x \in S}

IsSentinel(tok) == tok \in FormatSentinels

Line(toks) == Flatten(toks)

RECURSIVE VisibleToks(_)
VisibleToks(toks) ==
    IF toks = <<>> THEN <<>>
    ELSE (IF IsSentinel(Head(toks)) THEN <<>> ELSE <<Head(toks)>>)
         \o VisibleToks(Tail(toks))

\* the line with its sentinels removed
Visible(toks) == Flatten(VisibleToks(toks))

OpenOf == [B |-> S_BOLD, I |-> S_ITALIC]

CloseOf == [B |-> S_EBOLD, I |-> S_EITALIC]

Pads == {<< <<>>, <<>> >>, << << <<"a">>, <<" ">> >>, << <<" ">>, <<"d">> >> >>}

Cores == {<< <<"b">>, <<"c">> >>, << <<"x">> >>}

RECURSIVE Nested(_)
\* properly nested pairs, exactly d deep, with or without text around each pair
Nested(d) ==
    IF d = 0 THEN Cores
    ELSE {pad[1] \o <<OpenOf[k]>> \o n \o <<CloseOf[k]>> \o pad[2] :
            k \in {"B", "I"}, n \in Nested(d - 1), pad \in Pads}

WellFormedLines == UNION {Nested(d) : d \in 1..MaxDepth}

\* "**Vazhno:** test" tokenized
ScenarioLine ==
    <<S_BOLD, <<"v">>, <<"a">>, <<"z">>, <<"n">>, <<"o">>, <<":">>, S_EBOLD,
      <<" ">>, <<"t">>, <<"e">>, <<"s">>, <<"t">> >>

TextSymbols == {<<"a">>, <<" ">>, <<"_">>, <<"X">>}

InsertAt(q, k, x) == SubSeq(q, 1, k) \o <<x>> \o SubSeq(q, k + 1, Len(q))

\* a text with one formatting sentinel and no partner for it
SingleSentinelLines ==
    UNION {{InsertAt(q, k, m) : k \in 0..Len(q), m \in FormatSentinels} :
             q \in SeqsUpTo(TextSymbols, MaxText)}

\* any short sequence of sentinels and text
ShortLines == SeqsUpTo(FormatSentinels \cup {<<"a">>, <<" ">>}, MaxTokens)

\* a pair of one kind around a pair of the other kind that holds a capital letter
\* ("***X***" and "**a*X***" tokenized)
CapitalLines ==
    {<<OpenOf[k[1]]>> \o pre \o <<OpenOf[k[2]], <<"X">>, CloseOf[k[2]], CloseOf[k[1]]>> :
        k \in {<<"B", "I">>, <<"I", "B">>}, pre \in {<<>>, << <<"a">> >>}}

\* one pair around a short text
PairLines ==
    {<<OpenOf[k]>> \o q \o <<CloseOf[k]>> :
        k \in {"B", "I"}, q \in SeqsUpTo(TextSymbols, MaxText) \ {<<>>}}

RunLines ==
    {ScenarioLine} \cup WellFormedLines \cup SingleSentinelLines \cup ShortLines
        \cup CapitalLines \cup PairLines

(***************************************************************************)
(* _add_formatted_text_from_html, one part of the split line at a time.     *)
(***************************************************************************)
InitRuns ==
    /\ rr_toks \in RunLines
    /\ rr_parts = <<>>
    /\ rr_i = 0
    /\ rr_runs = <<>>
    /\ rr_pc = "start"
    /\ rrOthersIdle

\* para.clear(), the service markers deleted, re.split
RRSplit ==
    /\ rr_pc = "start"
    /\ rr_parts' = ReSplit(PairPattern, WithoutServiceMarkers(Line(rr_toks)))
    /\ rr_i' = 1
    /\ rr_runs' = <<>>
    /\ rr_pc' = "loop"
    /\ UNCHANGED <<rr_toks, rrOthers>>

RRAtPart == rr_pc = "loop" /\ rr_i <= Len(rr_parts)

RRStep(runs) ==
    /\ rr_runs' = rr_runs \o runs
    /\ rr_i' = rr_i + 1
    /\ UNCHANGED <<rr_toks, rr_parts, rr_pc, rrOthers>>

\* if not part: continue
RRSkipEmpty ==
    /\ RRAtPart
    /\ rr_parts[rr_i] = <<>>
    /\ RRStep(<<>>)

RRBold ==
    /\ RRAtPart
    /\ rr_parts[rr_i] # <<>>
    /\ IsBoldPart(rr_parts[rr_i])
    /\ RRStep(BoldPartRuns(rr_parts[rr_i]))

RRItalic ==
    /\ RRAtPart
    /\ rr_parts[rr_i] # <<>>
    /\ ~IsBoldPart(rr_parts[rr_i])
    /\ IsItalicPart(rr_parts[rr_i])
    /\ RRStep(ItalicPartRuns(rr_parts[rr_i]))

RRPlain ==
    /\ RRAtPart
    /\ rr_parts[rr_i] # <<>>
    /\ ~IsBoldPart(rr_parts[rr_i])
    /\ ~IsItalicPart(rr_parts[rr_i])
    /\ RRStep(PlainPartRuns(rr_parts[rr_i]))

RRFinish ==
    /\ rr_pc = "loop"
    /\ rr_i > Len(rr_parts)
    /\ rr_pc' = "done"
    /\ UNCHANGED <<rr_toks, rr_parts, rr_i, rr_runs, rrOthers>>

NextRuns == RRSplit \/ RRSkipEmpty \/ RRBold \/ RRItalic \/ RRPlain \/ RRFinish

SpecRuns == InitRuns /\ [][NextRuns]_vars

(***************************************************************************)
(* The HTML given to _simple_html_parse: paragraphs, headings, lists and    *)
(* tables, joined by newlines.                                              *)
(***************************************************************************)
MaxBlocks == 2

InlinePlain == <<"a", "b">>

InlineBold == <<"<", "s", "t", "r", "o", "n", "g", ">", "a", "b", "<", "/", "s", "t", "r", "o", "n", "g", ">", " ", "c">>

InlineNested == <<"<", "e", "m", ">", "a", " ", "<", "s", "t", "r", "o", "n", "g", ">", "b", "c", "<", "/", "s", "t", "r", "o", "n", "g", ">", "<", "/", "e", "m", ">">>

InlineDeep == <<"<", "s", "t", "r", "o", "n", "g", ">", "a", "<", "e", "m", ">", "b", "<", "s", "t", "r", "o", "n", "g", ">", "c", "d", "<", "/", "s", "t", "r", "o", "n", "g", ">", "<", "/", "e", "m", ">", "<", "/", "s", "t", "r", "o", "n", "g", ">">>

InlineOverlap == <<"<", "s", "t", "r", "o", "n", "g", ">", "a", "<", "e", "m", ">", "b", "<", "/", "s", "t", "r", "o", "n", "g", ">", "c", "<", "/", "e", "m", ">">>

InlineBoldSecondLine == <<"a", "b", "\n", "<", "s", "t", "r", "o", "n", "g", ">", "c", "d", "<", "/", "s", "t", "r", "o", "n", "g", ">", " ", "e">>

InlineTwoLines == <<"a", "b", "\n", "c", "d">>

Inlines ==
    {InlinePlain, InlineBold, InlineNested, InlineDeep, InlineOverlap,
     InlineBoldSecondLine, InlineTwoLines}

InTag(name, inner) == <<"<">> \o name \o <<">">> \o inner \o <<"<", "/">> \o name \o <<">">>

Paragraphs == {InTag(<<"p">>, x) : x \in Inlines}

Headings ==
    {InTag(<<"h", "1">>, InlinePlain), InTag(<<"h", "2">>, InlineBold), InTag(<<"h", "3">>, InlineNested),
     InTag(<<"h", "4">>, InlineDeep)}

ListOf(name, items) ==
    <<"<">> \o name \o <<">", "\n">>
    \o Flatten([k \in 1..Len(items) |-> InTag(<<"l", "i">>, items[k]) \o <<"\n">>])
    \o <<"<", "/">> \o name \o <<">">>

Lists == {ListOf(<<"u", "l">>, <<InlinePlain, InlineBold>>), ListOf(<<"o", "l">>, <<InlineNested>>)}

TableOneLine == <<"<", "t", "a", "b", "l", "e", ">", "<", "t", "r", ">", "<", "t", "d", ">", "1", "<", "/", "t", "d", ">", "<", "/", "t", "r", ">", "<", "/", "t", "a", "b", "l", "e", ">">>

TableLines == <<"<", "t", "a", "b", "l", "e", ">", "\n", "<", "t", "r", ">", "<", "t", "h", ">", "2", "<", "/", "t", "h", ">", "<", "/", "t", "r", ">", "\n", "<", "/", "t", "a", "b", "l", "e", ">">>

TableOpen == <<"<", "t", "a", "b", "l", "e", ">", "\n", "<", "t", "r", ">", "<", "t", "d", ">", "3", "<", "/", "t", "d", ">", "<", "/", "t", "r", ">">>

Tables == {TableOneLine, TableLines}

\* <h5> and <h6> headings
DeepHeadings == {InTag(<<"h", "5">>, InlinePlain), InTag(<<"h", "6">>, InlinePlain)}

ListNames == {<<"u", "l">>, <<"o", "l">>}

\* a list with the items a and c, a list with the item b inside the item a
NestedList(outer, inner) ==
    <<"<">> \o outer \o <<">", "\n", "<", "l", "i", ">", "a", "\n">>
    \o ListOf(inner, << <<"b">> >>)
    \o <<"\n", "<", "/", "l", "i", ">", "\n", "<", "l", "i", ">", "c", "<", "/", "l", "i", ">", "\n", "<", "/">> \o outer \o <<">">>

NestedLists == {NestedList(outer, inner) : outer \in ListNames, inner \in ListNames}

Blocks ==
    Paragraphs \cup Headings \cup DeepHeadings \cup Lists \cup NestedLists \cup Tables
    \cup {TableOpen, <<>>}

BlockSeqs == SeqsUpTo(Blocks, MaxBlocks) \ {<<>>}

Html(blocks) == JoinWith(blocks, <<"\n">>)

(***************************************************************************)
(* _simple_html_parse, statement by statement and line by line.             *)
(***************************************************************************)
InitParse ==
    /\ sp_blocks \in BlockSeqs
    /\ sp_html = Html(sp_blocks)
    /\ sp_tables = <<>>
    /\ sp_lines = <<>>
    /\ sp_st = LoopStart
    /\ sp_pc = "extract"
    /\ spOthersIdle

\* lines 310-314
SPExtract ==
    /\ sp_pc = "extract"
    /\ sp_tables' = TablesOf(sp_html)
    /\ sp_html' = ExtractTables(sp_html)
    /\ sp_pc' = "lists"
    /\ UNCHANGED <<sp_blocks, sp_lines, sp_st, spOthers>>

\* html_content = <the statements at pc>(html_content)
SPAssign(pc, html, next) ==
    /\ sp_pc = pc
    /\ sp_html' = html
    /\ sp_pc' = next
    /\ UNCHANGED <<sp_blocks, sp_tables, sp_lines, sp_st, spOthers>>

\* lines 317-320
SPLists == SPAssign("lists", RewriteLists(sp_html), "headings")

\* lines 323-326
SPHeadings == SPAssign("headings", RewriteHeadings(sp_html), "blocks")

\* lines 329-332
SPBlocks == SPAssign("blocks", RewriteBlocks(sp_html), "inline")

\* lines 336-339
SPInline == SPAssign("inline", RewriteInline(sp_html), "strip")

\* lines 342-343
SPStripTags == SPAssign("strip", StripTags(sp_html), "restore")

\* lines 346-354
SPRestore ==
    /\ sp_pc = "restore"
    /\ sp_html' = RestoreTables(sp_html, sp_tables, 1)
    /\ sp_lines' = SplitOn(sp_html', "\n")
    /\ sp_st' = [LoopStart EXCEPT !.doc = sp_st.doc]
    /\ sp_pc' = "loop"
    /\ UNCHANGED <<sp_blocks, sp_tables, spOthers>>

SPAtLine(kinds) ==
    /\ sp_pc = "loop"
    /\ sp_st.i <= Len(sp_lines)
    /\ LineKind(sp_lines[sp_st.i]) \in kinds

SPStep(st) ==
    /\ sp_st' = st
    /\ sp_pc' = IF st.raised THEN "raised" ELSE "loop"
    /\ UNCHANGED <<sp_blocks, sp_html, sp_tables, sp_lines, spOthers>>

SPTable == SPAtLine({"table"}) /\ SPStep(TableStep(sp_lines, sp_st))

SPHeading ==
    \E kind \in {"h1", "h2", "h3", "h4"} :
        SPAtLine({kind}) /\ SPStep(HeadingStep(sp_lines[sp_st.i], sp_st, kind))

SPListBoundary ==
    \E kind \in {"ul_start", "list_end", "ol_start"} :
        SPAtLine({kind}) /\ SPStep(ListBoundaryStep(sp_st, kind))

SPListItem == SPAtLine({"li"}) /\ SPStep(ListItemStep(sp_lines[sp_st.i], sp_st))

SPParagraph == SPAtLine({"p"}) /\ SPStep(ParagraphStep(sp_lines[sp_st.i], sp_st))

SPText == SPAtLine({"text"}) /\ SPStep(TextStep(sp_lines[sp_st.i], sp_st))

SPBlank == SPAtLine({"blank"}) /\ SPStep(BlankStep(sp_st))

\* a line no branch takes: only i += 1
SPNoBranch == SPAtLine({"none"}) /\ SPStep(Advance(sp_st))

SPReturn ==
    /\ sp_pc = "loop"
    /\ sp_st.i > Len(sp_lines)
    /\ sp_pc' = "done"
    /\ UNCHANGED <<sp_blocks, sp_html, sp_tables, sp_lines, sp_st, spOthers>>

NextParse ==
    \/ SPExtract \/ SPLists \/ SPHeadings \/ SPBlocks \/ SPInline \/ SPStripTags
    \/ SPRestore
    \/ SPTable \/ SPHeading \/ SPListBoundary \/ SPListItem \/ SPParagraph
    \/ SPText \/ SPBlank \/ SPNoBranch \/ SPReturn

SpecParse == InitParse /\ [][NextParse]_vars

(***************************************************************************)
(* The tables given to _parse_table_html: rows of td/th cells.  A cell has   *)
(* the tag it is written with, its text as written (raw) and the text a     *)
(* reader of the HTML sees (shown).                                         *)
(***************************************************************************)
MaxRows == 2

MaxCells == 2

MkInputCell(tag, raw, shown) == [tag |-> tag, raw |-> raw, shown |-> shown]

HeaderCell(t) == MkInputCell(<<"t", "h">>, t, t)

CellKinds ==
    {HeaderCell(<<"A">>),
     MkInputCell(<<"t", "d">>, <<" ", "1", "&", "a", "m", "p", ";">>, <<"1", "&">>)}

\* <table><tr><th>A</th><th>B</th></tr><tr><td>1</td></tr></table>
ScenarioTable ==
    << <<HeaderCell(<<"A">>), HeaderCell(<<"B">>)>>,
       <<MkInputCell(<<"t", "d">>, <<"1">>, <<"1">>)>> >>

\* a first row and a row of one <td> cell whose text holds the letters t, h
WordTables ==
    {<< <<first>>, <<MkInputCell(<<"t", "d">>, word, word)>> >> :
        first \in {HeaderCell(<<"A">>), MkInputCell(<<"t", "d">>, <<"1">>, <<"1">>)},
        word \in {<<"T", "h", "e">>, <<"b", "a", "t", "h">>}}

TableInputs ==
    {ScenarioTable} \cup SeqsUpTo(SeqsUpTo(CellKinds, MaxCells), MaxRows) \cup WordTables

CellHtml(cell) == InTag(cell.tag, cell.raw)

RowHtml(row) == InTag(<<"t", "r">>, Flatten([c \in 1..Len(row) |-> CellHtml(row[c])]))

TableHtml(rows) ==
    InTag(<<"t", "a", "b", "l", "e">>,
          Flatten([r \in 1..Len(rows) |-> <<"\n">> \o RowHtml(rows[r])]) \o <<"\n">>)

(***************************************************************************)
(* _parse_table_html, statement by statement.                               *)
(***************************************************************************)
InitTable ==
    /\ tb_in \in TableInputs
    /\ tb_html = TableHtml(tb_in)
    /\ tb_rows = <<>>
    /\ tb_data = <<>>
    /\ tb_max = 0
    /\ tb_doc = <<>>
    /\ tb_k = 0
    /\ tb_pc = "rows"
    /\ tbOthersIdle

\* lines 569-571: rows = re.findall(...); if not rows: return
TBFindRows ==
    /\ tb_pc = "rows"
    /\ tb_rows' = RowsOf(tb_html, ReFindAll(PairTag(<<"t", "r">>), tb_html))
    /\ tb_pc' = IF tb_rows' = <<>> THEN "done" ELSE "scan"
    /\ UNCHANGED <<tb_in, tb_html, tb_data, tb_max, tb_doc, tb_k, tbOthers>>

\* lines 576-580: the cells of the next row
TBScanRow ==
    /\ tb_pc = "scan"
    /\ Len(tb_data) < Len(tb_rows)
    /\ tb_data' = Append(tb_data, CellTexts(tb_rows[Len(tb_data) + 1]))
    /\ tb_max' = MaxCols(tb_max, tb_data'[Len(tb_data')])
    /\ UNCHANGED <<tb_in, tb_html, tb_rows, tb_doc, tb_k, tb_pc, tbOthers>>

\* lines 582-583: if max_cols == 0: return
TBNoColumns ==
    /\ tb_pc = "scan"
    /\ Len(tb_data) = Len(tb_rows)
    /\ tb_max = 0
    /\ tb_pc' = "done"
    /\ UNCHANGED <<tb_in, tb_html, tb_rows, tb_data, tb_max, tb_doc, tb_k, tbOthers>>

\* lines 586-587: doc.add_table(rows=1, cols=max_cols) and its style
TBAddTable ==
    /\ tb_pc = "scan"
    /\ Len(tb_data) = Len(tb_rows)
    /\ tb_max > 0
    /\ tb_doc' = <<[kind |-> "table", level |-> 0, style |-> "Light Grid Accent 1",
                    runs |-> <<>>, rows |-> <<TableRow(<<>>, FALSE, 0, tb_max)>>]>>
    /\ tb_k' = 1
    /\ tb_pc' = "fill"
    /\ UNCHANGED <<tb_in, tb_html, tb_rows, tb_data, tb_max, tbOthers>>

\* lines 589-598: one iteration of the loop over table_data; a row after the
\* first is added, then the cells of the row are assigned
TBFillRow ==
    /\ tb_pc = "fill"
    /\ tb_k <= Len(tb_data)
    /\ tb_doc' = [tb_doc EXCEPT ![1].rows =
                     SubSeq(@, 1, tb_k - 1)
                     \o <<TableRow(tb_data[tb_k], IsHeaderRow(tb_rows[tb_k]), tb_k, tb_max)>>]
    /\ tb_k' = tb_k + 1
    /\ UNCHANGED <<tb_in, tb_html, tb_rows, tb_data, tb_max, tb_pc, tbOthers>>

TBReturn ==
    /\ tb_pc = "fill"
    /\ tb_k > Len(tb_data)
    /\ tb_pc' = "done"
    /\ UNCHANGED <<tb_in, tb_html, tb_rows, tb_data, tb_max, tb_doc, tb_k, tbOthers>>

NextTable == TBFindRows \/ TBScanRow \/ TBNoColumns \/ TBAddTable \/ TBFillRow \/ TBReturn

SpecTable == InitTable /\ [][NextTable]_vars

(***************************************************************************)
(* Claims about the run reconstructor (SpecRuns).                           *)
(***************************************************************************)
RRDone == rr_pc = "done"

RECURSIVE CharFlags(_)
\* the runs, one <<symbol, bold, italic>> per symbol of text
CharFlags(runs) ==
    IF runs = <<>> THEN <<>>
    ELSE [j \in 1..Len(Head(runs).text) |->
            <<Head(runs).text[j], Head(runs).bold, Head(runs).italic>>]
         \o CharFlags(Tail(runs))

RECURSIVE MarkedChars(_, _, _)
\* the visible symbols of a line, each with the markers that enclose it
MarkedChars(toks, b, i) ==
    IF toks = <<>> THEN <<>>
    ELSE LET t == Head(toks)
         IN IF t = S_BOLD THEN MarkedChars(Tail(toks), b + 1, i)
            ELSE IF t = S_EBOLD THEN MarkedChars(Tail(toks), b - 1, i)
            ELSE IF t = S_ITALIC THEN MarkedChars(Tail(toks), b, i + 1)
            ELSE IF t = S_EITALIC THEN MarkedChars(Tail(toks), b, i - 1)
            ELSE [j \in 1..Len(t) |-> <<t[j], b > 0, i > 0>>]
                 \o MarkedChars(Tail(toks), b, i)

SentinelCount(toks) == Cardinality({k \in 1..Len(toks) : IsSentinel(toks[k])})

NoFlags(runs) == \A k \in 1..Len(runs) : ~runs[k].bold /\ ~runs[k].italic

NoKeyword(t) == ~Contains(t, W_BOLD) /\ ~Contains(t, W_ITALIC)

\* C1: for the line __BOLD__Vazhno:__/BOLD__ test the reconstructor emits exactly
\* the runs ("Vazhno:", bold) and (" test", plain), and for a line with one pair
\* the run texts concatenate to the line without its sentinels (the whitespace
\* between a span and the plain text next to it is kept).
C1_ScenarioRuns ==
    /\ (RRDone /\ rr_toks = ScenarioLine) =>
          rr_runs = <<MkRun(<<"v", "a", "z", "n", "o", ":">>, TRUE, FALSE),
                      MkRun(<<" ", "t", "e", "s", "t">>, FALSE, FALSE)>>
    /\ (RRDone /\ rr_toks \in Nested(1) \cup {ScenarioLine}) =>
          RunsText(rr_runs) = Visible(rr_toks)

\* C2: for a line of properly nested pairs (up to MaxDepth deep) the run texts
\* concatenate to the visible text and every symbol carries the flags of all
\* the pairs that enclose it (bold inside italic: both).
C2_NestedFlags ==
    (RRDone /\ rr_toks \in WellFormedLines) =>
        CharFlags(rr_runs) = MarkedChars(rr_toks, 0, 0)

\* C3: for a line with a single unmatched sentinel the output holds the visible
\* text (compared up to runs of whitespace), no sentinel word, and no run is
\* bold or italic.
C3_UnmatchedSentinel ==
    (RRDone /\ SentinelCount(rr_toks) = 1) =>
        /\ CollapseSpaces(RunsText(rr_runs)) = CollapseSpaces(Visible(rr_toks))
        /\ NoKeyword(RunsText(rr_runs))
        /\ NoFlags(rr_runs)

(***************************************************************************)
(* Claims about _simple_html_parse (SpecParse).                             *)
(***************************************************************************)
SPDone == sp_pc = "done"

\* the text a paragraph or heading block shows
BlockText(b) == RunsText(b.runs)

TextBlocks(doc) == {k \in 1..Len(doc) : doc[k].kind # "table"}

\* __(BOLD|/BOLD|ITALIC|/ITALIC)__
AnyFormatSentinel ==
    <<Alt(<< <<Lit(S_BOLD)>>, <<Lit(S_EBOLD)>>, <<Lit(S_ITALIC)>>, <<Lit(S_EITALIC)>> >>)>>

\* a text without its service and formatting sentinels and without whitespace
Bare(t) ==
    SelectSeq(ReSub(AnyFormatSentinel, <<>>, ReSub(ServiceMarkers, <<>>, t)),
              LAMBDA ch : ch \notin Space)

HasTable(blocks) ==
    \E k \in 1..Len(blocks) : Contains(blocks[k], <<"<", "t", "a", "b", "l", "e">>)

\* C4: no heading, paragraph or list item of the document holds a formatting
\* sentinel or a fragment of one (two underscores, or the word BOLD or ITALIC),
\* whatever the nesting of the bold and italic markup, headings included.
C4_NoSentinelInText ==
    \A k \in TextBlocks(sp_st.doc) :
        /\ NoKeyword(BlockText(sp_st.doc[k]))
        /\ ~Contains(BlockText(sp_st.doc[k]), US)

\* C5: when the parse of a document without tables returns, every line of the
\* rewritten text that carries visible text has a block that contains this text
\* (texts compared without sentinels and whitespace).
C5_NoTextDropped ==
    (SPDone /\ ~HasTable(sp_blocks)) =>
        \A k \in 1..Len(sp_lines) :
            Bare(sp_lines[k]) # <<>> =>
                \E b \in TextBlocks(sp_st.doc) :
                    Contains(Bare(BlockText(sp_st.doc[b])), Bare(sp_lines[k]))

\* C6: _simple_html_parse never raises, whatever the markup: a table on one
\* line, a table on the last line, a table that is never closed.
C6_NeverRaises == sp_pc # "raised"

RECURSIVE WithPlaceholders(_, _)
\* the blocks, each table replaced by the placeholder of its rank k, k + 1, ...
WithPlaceholders(blocks, k) ==
    IF blocks = <<>> THEN <<>>
    ELSE IF Head(blocks) \in Tables
    THEN <<Placeholder(k)>> \o WithPlaceholders(Tail(blocks), k + 1)
    ELSE <<Head(blocks)>> \o WithPlaceholders(Tail(blocks), k)

\* the tables of the input, in their order
TablesIn(blocks) == SelectSeq(blocks, LAMBDA b : b \in Tables)

\* every table of the input is closed
AllClosed(blocks) == \A k \in 1..Len(blocks) : blocks[k] # TableOpen

\* C7: for an input with any number of <table>...</table> regions, after the
\* extraction each region is replaced by its own placeholder and the text
\* outside is unchanged, and after the reinsertion the tables of the text are
\* the tables of the input, each once, unchanged and in their order.
C7_TablesKept ==
    AllClosed(sp_blocks) =>
        /\ sp_pc = "lists" => sp_html = Html(WithPlaceholders(sp_blocks, 0))
        /\ sp_pc \in {"loop", "done", "raised"} =>
               MatchTexts(sp_html, TableMatches(sp_html)) = TablesIn(sp_blocks)

(***************************************************************************)
(* Claims about _parse_table_html (SpecTable).                              *)
(***************************************************************************)
TBDone == tb_pc = "done"

\* the largest number of cells in a row of the input
WidestRow(rows) == SetMax({0} \cup {Len(rows[r]) : r \in 1..Len(rows)})

\* the text the table built must show at row r, column c
ShownAt(rows, r, c) == IF c <= Len(rows[r]) THEN rows[r][c].shown ELSE <<>>

\* C8: _parse_table_html adds nothing when no row has a cell; otherwise it adds
\* one table with a row per <tr> and as many columns as the widest row has
\* cells, every cell holding the text of the input cell at its place or nothing
\* when the row has no such cell, the cells of the first row bold.
C8_TableShape ==
    TBDone =>
        IF WidestRow(tb_in) = 0 THEN tb_doc = <<>>
        ELSE /\ Len(tb_doc) = 1
             /\ tb_doc[1].kind = "table"
             /\ Len(tb_doc[1].rows) = Len(tb_in)
             /\ \A r \in 1..Len(tb_in) :
                    /\ Len(tb_doc[1].rows[r]) = WidestRow(tb_in)
                    /\ \A c \in 1..WidestRow(tb_in) :
                           tb_doc[1].rows[r][c].text = ShownAt(tb_in, r, c)
             /\ \A c \in 1..Len(tb_in[1]) : tb_doc[1].rows[1][c].bold

\* the scenario table is built: two columns, the cell at row 2, column 2 empty
C8_ScenarioBuilt ==
    /\ TBDone
    /\ tb_in = ScenarioTable
    /\ Len(tb_doc) = 1
    /\ Len(tb_doc[1].rows[2]) = 2
    /\ tb_doc[1].rows[2][2].text = <<>>
    /\ tb_doc[1].rows[1][1].bold

(***************************************************************************)
(* The HTML given to _fix_broken_lists: a bold label and its "- item"       *)
(* lines, inside the label's paragraph or after it, between other blocks.   *)
(* An item has its text as written (raw) and the text a reader of the list  *)
(* sees (shown); a context has its text and what the repair makes of it.    *)
(***************************************************************************)
MaxItems == 2

MkItem(raw, shown) == [raw |-> raw, shown |-> shown]

ItemKinds == {MkItem(<<"c">>, <<"c">>), MkItem(<<"d", " ", "e", " ">>, <<"d", " ", "e">>)}

Labels == {<<"a", "b">>, <<"a", ":", "b">>}

MkContext(raw, fixed, lis) == [raw |-> raw, fixed |-> fixed, lis |-> lis]

NoContext == MkContext(<<>>, <<>>, 0)

\* a paragraph and a blank line
ParagraphBefore == MkContext(<<"<", "p", ">", "x", "<", "/", "p", ">", "\n", "\n">>, <<"<", "p", ">", "x", "<", "/", "p", ">", "\n", "\n">>, 0)

\* a label paragraph with one item line after it
LabelBefore ==
    MkContext(<<"<", "p", ">", "<", "s", "t", "r", "o", "n", "g", ">", "q", ":", "<", "/", "s", "t", "r", "o", "n", "g", ">", "<", "/", "p", ">", "\n", "-", " ", "z", "\n">>,
              <<"<", "p", ">", "<", "s", "t", "r", "o", "n", "g", ">", "q", ":", "<", "/", "s", "t", "r", "o", "n", "g", ">", "<", "/", "p", ">", "\n", "<", "u", "l", ">", "\n", " ", " ", "<", "l", "i", ">", "z", "<", "/", "l", "i", ">", "\n", "<", "/", "u", "l", ">">>, 1)

Befores == {NoContext, ParagraphBefore, LabelBefore}

Afters ==
    {<<>>, <<"\n", "\n", "<", "p", ">", "y", "<", "/", "p", ">">>, <<"\n", "<", "h", "2", ">", "y", "<", "/", "h", "2", ">">>,
     <<"\n", "<", "d", "i", "v", ">", "y", "<", "/", "d", "i", "v", ">">>, <<"\n", "\n", "y">>,
     <<"\n", "<", "p", ">", "y", "<", "/", "p", ">">>}

\* "bare" is an ordinary paragraph (no bold label) with item lines after it;
\* a stand-alone label may have no item line after it
ListInputs ==
    [form : {"inside", "after"}, before : Befores, label : Labels,
     gap : {<<>>, <<" ">>}, items : SeqsUpTo(ItemKinds, MaxItems) \ {<<>>},
     after : Afters]
    \cup [form : {"bare"}, before : Befores, label : Labels,
          gap : {<<>>}, items : SeqsUpTo(ItemKinds, MaxItems) \ {<<>>}, after : Afters]
    \cup [form : {"after"}, before : Befores, label : Labels,
          gap : {<<>>, <<" ">>}, items : {<<>>}, after : Afters]

ItemLinesHtml(items) ==
    JoinWith([k \in 1..Len(items) |-> <<"-", " ">> \o items[k].raw], <<"\n">>)

ListsHtml(in) ==
    in.before.raw \o (IF in.form = "bare" THEN <<"<", "p", ">">> ELSE LabelOpen) \o in.label
    \o (IF in.form = "inside" THEN <<":", "<", "/", "s", "t", "r", "o", "n", "g", ">">>
        ELSE IF in.form = "bare" THEN <<":", "<", "/", "p", ">">>
        ELSE <<":", "<", "/", "s", "t", "r", "o", "n", "g", ">", "<", "/", "p", ">">>)
    \o in.gap \o <<"\n">> \o ItemLinesHtml(in.items)
    \o (IF in.form = "inside" THEN <<"<", "/", "p", ">">> ELSE <<>>)
    \o in.after

(***************************************************************************)
(* _fix_broken_lists, statement by statement.                               *)
(***************************************************************************)
InitLists ==
    /\ fl_in \in ListInputs
    /\ fl_html = ListsHtml(fl_in)
    /\ fl_pc = "pattern2"
    /\ flOthersIdle

\* line 155
FLPattern2 ==
    /\ fl_pc = "pattern2"
    /\ fl_html' = SubListsFrom(pattern2, 2, fl_html, 1)
    /\ fl_pc' = "pattern1"
    /\ UNCHANGED <<fl_in, flOthers>>

\* line 158
FLPattern1 ==
    /\ fl_pc = "pattern1"
    /\ fl_html' = SubListsFrom(pattern1, 1, fl_html, 1)
    /\ fl_pc' = "return"
    /\ UNCHANGED <<fl_in, flOthers>>

\* line 160
FLReturn ==
    /\ fl_pc = "return"
    /\ fl_pc' = "done"
    /\ UNCHANGED <<fl_in, fl_html, flOthers>>

NextLists == FLPattern2 \/ FLPattern1 \/ FLReturn

SpecLists == InitLists /\ [][NextLists]_vars

(***************************************************************************)
(* Claims about _fix_broken_lists (SpecLists).                              *)
(***************************************************************************)
FLDone == fl_pc = "done"

\* the label paragraph and the list the reader expects after the repair
Repaired(label, items) ==
    LabelOpen \o label \o <<":", "<", "/", "s", "t", "r", "o", "n", "g", ">", "<", "/", "p", ">", "\n", "<", "u", "l", ">", "\n">>
    \o Flatten([k \in 1..Len(items) |->
                   <<" ", " ", "<", "l", "i", ">">> \o items[k].shown \o <<"<", "/", "l", "i", ">", "\n">>])
    \o <<"<", "/", "u", "l", ">">>

\* the number of <li> elements of the text
LiCount(html) == Cardinality({i \in 1..Len(html) : StartsWithAt(html, i, <<"<", "l", "i", ">">>)})

\* a line of the text is still a "- item" line
HasItemLine(html) ==
    \E k \in 1..Len(SplitOn(html, "\n")) : StartsWith(SplitOn(html, "\n")[k], <<"-", " ">>)

\* C9: a paragraph that holds a bold label and N >= 1 "- item" lines is
\* rewritten to the label's paragraph followed by a <ul> with exactly N <li>
\* elements, the item texts in their order, and no "- item" line remains.
C9_ParagraphRepaired ==
    (FLDone /\ fl_in.form = "inside") =>
        /\ fl_html = fl_in.before.fixed \o Repaired(fl_in.label, fl_in.items) \o fl_in.after
        /\ LiCount(fl_html) = Len(fl_in.items) + fl_in.before.lis
        /\ ~HasItemLine(fl_html)

\* a paragraph with two item lines has been repaired
C9_TwoItemsRepaired ==
    /\ FLDone
    /\ fl_in.form = "inside"
    /\ Len(fl_in.items) = 2
    /\ fl_in.items[1] # fl_in.items[2]
    /\ Contains(fl_html, Repaired(fl_in.label, fl_in.items))
    /\ ~Contains(fl_html, ItemLinesHtml(fl_in.items))

(***************************************************************************)
(* The HTML the renderer gives to markdown_to_docx: one block, or the       *)
(* paragraph of a bold label whose "- item" lines the renderer did not      *)
(* recognize as a list, written with or without a <br /> at its line ends.  *)
(***************************************************************************)
BrokenListParagraph(label, items, br) ==
    LabelOpen \o label \o <<":", "<", "/", "s", "t", "r", "o", "n", "g", ">">> \o br \o <<"\n">>
    \o JoinWith([k \in 1..Len(items) |-> <<"-", " ">> \o items[k].raw], br \o <<"\n">>)
    \o <<"<", "/", "p", ">">>

MkExport(blocks, items) == [blocks |-> blocks, items |-> items]

BrokenListDocs ==
    {MkExport(<<BrokenListParagraph(label, items, br)>>, items) :
        label \in Labels, items \in SeqsUpTo(ItemKinds, MaxItems) \ {<<>>},
        br \in {<<>>, <<"<", "b", "r", " ", "/", ">">>}}

ExportDocs == {MkExport(<<b>>, <<>>) : b \in Blocks} \cup BrokenListDocs

(***************************************************************************)
(* markdown_to_docx, statement by statement; the call of                    *)
(* _simple_html_parse runs as in SpecParse.  SpecExport gives it the HTML   *)
(* of every document and an empty metadata map.                             *)
(***************************************************************************)
DefaultOpts == [include_metadata |-> TRUE, include_technical |-> TRUE]

\* lines 122-126, 143: the arguments of the call and the new document
MDCalled(call, metadata, opts) ==
    /\ ex_in = call
    /\ ex_meta = metadata
    /\ ex_opts = opts
    /\ ex_props = NoProps
    /\ ex_doc = <<>>
    /\ ex_html = <<>>
    /\ ex_pc = "properties"
    /\ spIdle
    /\ exOthersIdle

InitExport == \E call \in ExportDocs : MDCalled(call, <<>>, DefaultOpts)

\* a statement of the part before the body: the properties and the document
MDHeader(pc, props, doc, next) ==
    /\ ex_pc = pc
    /\ ex_props' = props
    /\ ex_doc' = doc
    /\ ex_pc' = next
    /\ UNCHANGED <<ex_in, ex_meta, ex_opts, ex_html, spVars, exOthers>>

\* lines 152-157: the title and the author of the document
MDProperties ==
    MDHeader("properties",
             IF ex_opts.include_metadata THEN WithAuthor(WithTitle(ex_props, ex_meta), ex_meta)
             ELSE ex_props,
             ex_doc, "created")

\* lines 158-172: the creation date of the document
MDCreated ==
    MDHeader("created",
             IF ex_opts.include_metadata THEN WithCreated(ex_props, ex_meta) ELSE ex_props,
             ex_doc, "title")

\* lines 174-177: the heading of the title
MDTitle == MDHeader("title", ex_props, WithTitleHeading(ex_doc, ex_meta), "technical")

\* lines 179-198: the technical data
MDTechnical ==
    MDHeader("technical", ex_props,
             IF ex_opts.include_technical THEN ex_doc \o TechBlocks(TechData(ex_meta, 1))
             ELSE ex_doc,
             "render")

\* lines 201-204: html_content = markdown2.markdown(...)
MDRender ==
    /\ ex_pc = "render"
    /\ ex_html' = Html(ex_in.blocks)
    /\ ex_pc' = "parse"
    /\ UNCHANGED <<ex_in, ex_meta, ex_opts, ex_props, ex_doc, spVars, exOthers>>

\* line 207: self._simple_html_parse(html_content, doc) is entered
MDParse ==
    /\ ex_pc = "parse"
    /\ sp_blocks' = ex_in.blocks
    /\ sp_html' = ex_html
    /\ sp_st' = [LoopStart EXCEPT !.doc = ex_doc]
    /\ sp_pc' = "extract"
    /\ ex_pc' = "save"
    /\ UNCHANGED <<ex_in, ex_meta, ex_opts, ex_props, ex_doc, ex_html, sp_tables, sp_lines, exOthers>>

\* lines 210-213: the call has returned; the document is saved
MDSave ==
    /\ ex_pc = "save"
    /\ sp_pc = "done"
    /\ ex_pc' = "saved"
    /\ UNCHANGED <<ex_in, ex_meta, ex_opts, ex_props, ex_doc, ex_html, spVars, exOthers>>

\* line 207: the call has raised; markdown_to_docx raises and saves nothing
MDRaise ==
    /\ ex_pc = "save"
    /\ sp_pc = "raised"
    /\ ex_pc' = "raised"
    /\ UNCHANGED <<ex_in, ex_meta, ex_opts, ex_props, ex_doc, ex_html, spVars, exOthers>>

NextExport ==
    \/ MDProperties \/ MDCreated \/ MDTitle \/ MDTechnical
    \/ MDRender \/ MDParse \/ NextParse \/ MDSave \/ MDRaise

SpecExport == InitExport /\ [][NextExport]_vars

(***************************************************************************)
(* The metadata maps given to markdown_to_docx.  A date is given with the   *)
(* creation date a reader of the formats %Y-%m-%d, %d.%m.%Y and %d/%m/%Y    *)
(* finds in it, None when there is none.                                    *)
(***************************************************************************)
Absent == [type |-> "absent", text |-> <<>>, ymd |-> <<>>]

\* the map with the keys chosen to be present
MkMetadata(chosen) == [k \in {j \in DOMAIN chosen : chosen[j] # Absent} |-> chosen[k]]

DateCase(value, created) == [value |-> value, created |-> created]

LeapDay == DateObj(2024, 2, 29)

DateCases ==
    {DateCase(Absent, None), DateCase(None, None), DateCase(Str(<<>>), None),
     DateCase(Str(<<" ">>), None),
     DateCase(Str(<<"2", "0", "2", "4", "-", "0", "2", "-", "2", "9">>), LeapDay),
     DateCase(Str(<<"2", "0", "2", "4", "-", "0", "2", "-", "2", "9", " ", "1", "0", ":", "3", "0">>), LeapDay),
     DateCase(Str(<<" ", "2", "9", ".", "0", "2", ".", "2", "0", "2", "4">>), LeapDay),
     DateCase(Str(<<"2", "9", "/", "0", "2", "/", "2", "0", "2", "4">>), LeapDay),
     DateCase(Str(<<"1", ".", "2", ".", "2", "0", "2", "4">>), DateObj(2024, 2, 1)),
     DateCase(Str(<<"2", "0", "2", "3", "-", "0", "2", "-", "2", "9">>), None),
     DateCase(Str(<<"2", "0", "2", "4", "-", "1", "3", "-", "0", "1">>), None),
     DateCase(Str(<<"2", "9", "-", "0", "2", "-", "2", "0", "2", "4">>), None),
     DateCase(Str(<<"2", "0", "2", "4", "-", "0", "2", "-", "2", "9", "T", "1", "0", ":", "3", "0">>), None),
     DateCase(Str(<<"2", "0", "2", "4", "/", "0", "2", "/", "2", "9">>), None),
     DateCase(LeapDay, None)}

\* the fields in all their combinations, with one date
FieldMetadata ==
    {[title |-> t, author |-> a, organization |-> o, department |-> d, type |-> y,
      number |-> n, date |-> c, status |-> s] :
        t \in {Absent, Str(<<>>), Str(<<"t">>)}, a \in {Absent, Str(<<"w">>)},
        o \in {Absent, None, Str(<<"o">>)}, d \in {Absent, Str(<<"d">>)},
        y \in {Absent, Str(<<"y">>)}, n \in {Absent, Str(<<"7">>)},
        c \in {DateCase(Absent, None), DateCase(Str(<<"2", "0", "2", "4", "-", "0", "2", "-", "2", "9">>), LeapDay)},
        s \in {Absent, Str(<<"s">>)}}

\* the dates in all their forms, with the title and the organization
DateMetadata ==
    {[title |-> t, author |-> Absent, organization |-> o, department |-> Absent,
      type |-> Absent, number |-> Absent, date |-> c, status |-> Absent] :
        t \in {Absent, Str(<<"t">>)}, o \in {Absent, Str(<<"o">>)}, c \in DateCases}

\* the call: the body, and the fields the metadata map was built from
MkCall(blocks, fields) == [blocks |-> blocks, items |-> <<>>, fields |-> fields]

MetadataOf(fields) == MkMetadata([fields EXCEPT !.date = fields.date.value])

HeaderCalls ==
    {MkCall(<<InTag(<<"p">>, InlinePlain)>>, f) : f \in FieldMetadata \cup DateMetadata}

\* every metadata map with one paragraph, and as in SpecExport every document
\* with an empty map
InitDocx ==
    \/ \E call \in HeaderCalls, m \in BOOLEAN, t \in BOOLEAN :
           MDCalled(call, MetadataOf(call.fields),
                    [include_metadata |-> m, include_technical |-> t])
    \/ InitExport

SpecDocx == InitDocx /\ [][NextExport]_vars

\* the fields the metadata map of the call was built from
NoFields ==
    [title |-> Absent, author |-> Absent, organization |-> Absent, department |-> Absent,
     type |-> Absent, number |-> Absent, date |-> DateCase(Absent, None), status |-> Absent]

CallFields == IF "fields" \in DOMAIN ex_in THEN ex_in.fields ELSE NoFields

(***************************************************************************)
(* Claims about markdown_to_docx (SpecExport).                              *)
(***************************************************************************)
\* the document has a list item with the text t
HasListItem(doc, t) ==
    \E b \in 1..Len(doc) :
        /\ doc[b].kind = "para"
        /\ doc[b].style \in {"List Bullet", "List Number"}
        /\ BlockText(doc[b]) = t

\* C10: on the export path the list repair runs before the tokenizer, so when
\* markdown_to_docx has saved a document whose HTML held a bold label with
\* unrecognized "- item" lines, every item is a list item of the document.
C10_ListsRepairedOnExport ==
    (ex_pc = "saved" /\ ex_in.items # <<>>) =>
        \A k \in 1..Len(ex_in.items) : HasListItem(sp_st.doc, ex_in.items[k].shown)

(***************************************************************************)
(* Claims about the lists and headings of _simple_html_parse (SpecParse).   *)
(***************************************************************************)
\* the paragraph style of the items of a list
StyleOfList(name) == IF name = <<"o", "l">> THEN "List Number" ELSE "List Bullet"

\* the document has a paragraph of the given style with the text t
HasStyled(doc, style, t) ==
    \E b \in 1..Len(doc) :
        doc[b].kind = "para" /\ doc[b].style = style /\ BlockText(doc[b]) = t

\* C11: every list item has the style of the innermost list open where it
\* occurs: the item of the inner list the inner list's style, and the items of
\* the outer list, the one after the inner list included, the outer list's.
C11_InnermostListStyle ==
    SPDone =>
        \A outer \in ListNames, inner \in ListNames :
            (\E k \in 1..Len(sp_blocks) : sp_blocks[k] = NestedList(outer, inner)) =>
                /\ HasStyled(sp_st.doc, StyleOfList(outer), <<"a">>)
                /\ HasStyled(sp_st.doc, StyleOfList(inner), <<"b">>)
                /\ HasStyled(sp_st.doc, StyleOfList(outer), <<"c">>)

\* the document has a heading of the given level with the text t
HasHeading(doc, level, t) ==
    \E b \in 1..Len(doc) :
        doc[b].kind = "heading" /\ doc[b].level = level /\ BlockText(doc[b]) = t

\* C12: every heading h1..h6 of the HTML is a heading of the document, h1-h4
\* at their level and h5, h6 at level 4, and none is an ordinary paragraph.
C12_HeadingsNative ==
    SPDone =>
        \A n \in 1..6 :
            (\E k \in 1..Len(sp_blocks) :
                 sp_blocks[k] = InTag(<<"h", DigitOf[n + 1]>>, InlinePlain)) =>
                /\ HasHeading(sp_st.doc, Min(n, 4), InlinePlain)
                /\ Len(sp_blocks) = 1 => ~HasStyled(sp_st.doc, "", InlinePlain)

(***************************************************************************)
(* Claims about markdown_to_docx (SpecDocx).                                *)
(***************************************************************************)
MDSaved == ex_pc = "saved"

\* a field that is there and is not empty
NonEmpty(v) == v \notin {Absent, None, Str(<<>>)}

\* what a reader sees of a block: its kind, level, style, alignment and text
Seen(kind, level, style, alignment, text) ==
    [kind |-> kind, level |-> level, style |-> style, alignment |-> alignment, text |-> text]

SeenBlock(b) == Seen(b.kind, b.level, b.style, AlignmentOf(b), BlockText(b))

SeenDoc(doc) == [k \in 1..Len(doc) |-> SeenBlock(doc[k])]

\* the centered heading of the title
ExpectedTitle(fields) ==
    IF NonEmpty(fields.title)
    THEN <<Seen("heading", 1, "Heading", "CENTER", fields.title.text)>>
    ELSE <<>>

\* the fields of the technical data, in their order
TechFields(fields) ==
    <<fields.organization, fields.department, fields.type, fields.number, fields.date.value,
      fields.status>>

\* the lines of the fields that are not empty
ExpectedLines(fields) ==
    Flatten([k \in 1..6 |->
                IF NonEmpty(TechFields(fields)[k])
                THEN <<TechLabels[k][2] \o FString(TechFields(fields)[k]), <<"\n">> >>
                ELSE <<>>])

\* the bulleted paragraph of the lines and the empty paragraph after it
ExpectedTech(fields, include_technical) ==
    IF include_technical /\ ExpectedLines(fields) # <<>>
    THEN <<Seen("para", 0, "List Bullet", "",
                Flatten(SubSeq(ExpectedLines(fields), 1, Len(ExpectedLines(fields)) - 1))),
           Seen("para", 0, "", "", <<>>)>>
    ELSE <<>>

ExpectedHeader(fields, include_technical) ==
    ExpectedTitle(fields) \o ExpectedTech(fields, include_technical)

\* the paragraph of the body of HeaderCalls
BodySeen == <<Seen("para", 0, "", "", InlinePlain)>>

\* C13: before any block of the body the saved document holds, in this order,
\* the centered level-1 heading of the title iff the title is not empty, and,
\* iff include_technical is set and one of organization, department, type,
\* number, date, status is not empty, one 'List Bullet' paragraph with the lines
\* of exactly the non-empty fields in that order and one empty paragraph.
C13_HeaderBlocks ==
    MDSaved =>
        /\ Len(sp_st.doc) >= Len(ExpectedHeader(CallFields, ex_opts.include_technical))
        /\ SubSeq(SeenDoc(sp_st.doc), 1,
                  Len(ExpectedHeader(CallFields, ex_opts.include_technical)))
               = ExpectedHeader(CallFields, ex_opts.include_technical)
        /\ "fields" \in DOMAIN ex_in =>
               SeenDoc(sp_st.doc)
                   = ExpectedHeader(CallFields, ex_opts.include_technical) \o BodySeen

\* a document with a title, an organization and a status but no department has
\* been saved: the heading, the paragraph of two lines, the empty paragraph, the body
C13_TitleAndTwoFields ==
    /\ MDSaved
    /\ NonEmpty(CallFields.title) /\ NonEmpty(CallFields.organization)
    /\ NonEmpty(CallFields.status) /\ CallFields.department = Absent
    /\ CallFields.type = Absent /\ CallFields.number = Absent /\ CallFields.date.value = Absent
    /\ ex_opts.include_technical
    /\ Len(sp_st.doc) = 4
    /\ SeenBlock(sp_st.doc[1]) = Seen("heading", 1, "Heading", "CENTER", <<"t">>)
    /\ SeenBlock(sp_st.doc[2])
           = Seen("para", 0, "List Bullet", "", <<"o", "r", "g", "a", "n", "i", "z", "a", "c", "i", "a", ":", " ", "o", "\n", "s", "t", "a", "t", "u", "s", ":", " ", "s">>)
    /\ SeenBlock(sp_st.doc[3]) = Seen("para", 0, "", "", <<>>)

\* C14, as stated: whenever the metadata holds a date, the creation date of the
\* saved document is the date the first matching format finds in it, and it is
\* not set when no format matches.
C14_CreatedWheneverDate == MDSaved => ex_props.created = CallFields.date.created

\* C14, with include_metadata: when include_metadata is set, the creation date
\* of the document is the date the first matching format among %Y-%m-%d,
\* %d.%m.%Y, %d/%m/%Y finds in the first word of the date, and is not set for a
\* date no format matches, an empty or blank text, a date object or None; when
\* include_metadata is not set it is never set; no date makes the call raise.
C14_CreatedFromDate ==
    /\ MDSaved =>
           ex_props.created
               = (IF ex_opts.include_metadata THEN CallFields.date.created ELSE None)
    /\ "fields" \in DOMAIN ex_in => ex_pc # "raised"

\* a date written as day.month.year has been parsed by the second format
C14_SecondFormatParsed ==
    /\ MDSaved
    /\ ex_opts.include_metadata
    /\ CallFields.date.value = Str(<<" ", "2", "9", ".", "0", "2", ".", "2", "0", "2", "4">>)
    /\ ex_props.created = DateObj(2024, 2, 29)

\* the property an entry of the metadata gives: the entry when it is there
PropertyOf(v) == IF NonEmpty(v) THEN v ELSE None

\* C15: when include_metadata is set, the title property of the saved document
\* is the title of the metadata and its author property the author of the
\* metadata when these are there, and neither is set when its entry is absent.
C15_PropertiesFromEntries ==
    (MDSaved /\ ex_opts.include_metadata) =>
        /\ ex_props.title = PropertyOf(CallFields.title)
        /\ ex_props.author = PropertyOf(CallFields.author)

(***************************************************************************)
(* The documents given to docx_to_markdown: paragraphs of every style and   *)
(* alignment, with texts that are empty, blank, padded or hold a line       *)
(* break; tables of single-line cells; core properties set or not.          *)
(***************************************************************************)
MaxParagraphs == 2

MkParagraph(text, style, alignment) == [text |-> text, style |-> style, alignment |-> alignment]

Alignments == {"", "CENTER"}

ParagraphTexts == {<<>>, <<" ">>, <<"a", "b">>, <<" ", "a", "b">>, <<"a", "\n", "b">>}

StyleNames ==
    {<<"N", "o", "r", "m", "a", "l">>, <<"H", "e", "a", "d", "i", "n", "g", " ", "1">>, <<"H", "e", "a", "d", "i", "n", "g", " ", "2">>, <<"H", "e", "a", "d", "i", "n", "g", " ", "3">>, <<"H", "e", "a", "d", "i", "n", "g", " ", "4">>, <<"H", "e", "a", "d", "i", "n", "g", " ", "5">>,
     <<"T", "i", "t", "l", "e">>, <<"L", "i", "s", "t", " ", "B", "u", "l", "l", "e", "t">>}

DocxParagraphs ==
    {MkParagraph(t, <<"N", "o", "r", "m", "a", "l">>, a) : t \in ParagraphTexts, a \in Alignments}
    \cup {MkParagraph(<<"a", "b">>, n, a) : n \in StyleNames, a \in Alignments}

\* a table without rows, of one row, of two and of three rows
DocxTableKinds ==
    {<<>>,
     << <<<<"h">>>> >>,
     << <<<<"h">>, <<"g">>>>, <<<<" ", "1">>, <<"2">>>> >>,
     << <<<<"h">>, <<"g">>>>, <<<<"1">>, <<>>>>, <<<<"3">>>> >>}

DocxTables == SeqsUpTo(DocxTableKinds, 2)

NoCoreProps == [title |-> Str(<<>>), author |-> Str(<<>>), created |-> None, modified |-> None]

CoreProps ==
    {[title |-> t, author |-> a, created |-> c, modified |-> m] :
        t \in {Str(<<>>), Str(<<"T">>)}, a \in {Str(<<>>), Str(<<"w">>)},
        c \in {None, DateObj(2024, 2, 9)}, m \in {None, DateObj(2025, 11, 30)}}

MkDocx(paragraphs, tables, props) ==
    [paragraphs |-> paragraphs, tables |-> tables, props |-> props]

PlainParagraph == MkParagraph(<<"a", "b">>, <<"N", "o", "r", "m", "a", "l">>, "")

\* every sequence of paragraphs, every sequence of tables, every properties
Docxs ==
    {MkDocx(ps, ts, NoCoreProps) :
        ps \in SeqsUpTo(DocxParagraphs, MaxParagraphs), ts \in {<<>>, << <<<<<<"h">>>>>> >>}}
    \cup {MkDocx(ps, ts, NoCoreProps) : ps \in {<<>>, <<PlainParagraph>>}, ts \in DocxTables}
    \cup {MkDocx(ps, <<>>, c) : ps \in {<<>>, <<PlainParagraph>>}, c \in CoreProps}

(***************************************************************************)
(* docx_to_markdown, statement by statement.                                *)
(***************************************************************************)
\* lines 36-38, 53: the arguments and the document read from docx_path
DMCalled(doc, include_metadata) ==
    /\ dm_doc = doc
    /\ dm_opts = [include_metadata |-> include_metadata]
    /\ dm_meta = <<>>
    /\ dm_lines = <<>>
    /\ dm_k = 1
    /\ dm_out = <<>>
    /\ dm_pc = "metadata"

InitMarkdown ==
    /\ \E doc \in Docxs, m \in BOOLEAN : DMCalled(doc, m)
    /\ dmOthersIdle

\* lines 56-69
DMMetadata ==
    /\ dm_pc = "metadata"
    /\ dm_meta' = (IF dm_opts.include_metadata THEN PropertiesMetadata(dm_doc.props) ELSE <<>>)
    /\ dm_pc' = "paragraphs"
    /\ UNCHANGED <<dm_doc, dm_opts, dm_lines, dm_k, dm_out, dmOthers>>

\* lines 71-91: one paragraph
DMParagraph ==
    /\ dm_pc = "paragraphs"
    /\ dm_k <= Len(dm_doc.paragraphs)
    /\ dm_lines' = Append(dm_lines, ParagraphLine(dm_doc.paragraphs[dm_k]))
    /\ dm_k' = dm_k + 1
    /\ UNCHANGED <<dm_doc, dm_opts, dm_meta, dm_out, dm_pc, dmOthers>>

\* line 71: the paragraphs are exhausted
DMParagraphsEnd ==
    /\ dm_pc = "paragraphs"
    /\ dm_k > Len(dm_doc.paragraphs)
    /\ dm_k' = 1
    /\ dm_pc' = "tables"
    /\ UNCHANGED <<dm_doc, dm_opts, dm_meta, dm_lines, dm_out, dmOthers>>

\* lines 94-107: one table
DMTable ==
    /\ dm_pc = "tables"
    /\ dm_k <= Len(dm_doc.tables)
    /\ dm_lines' = dm_lines \o TableContentLines(dm_doc.tables[dm_k])
    /\ dm_k' = dm_k + 1
    /\ UNCHANGED <<dm_doc, dm_opts, dm_meta, dm_out, dm_pc, dmOthers>>

\* lines 94, 109-120: the tables are exhausted; the text is returned
DMReturn ==
    /\ dm_pc = "tables"
    /\ dm_k > Len(dm_doc.tables)
    /\ dm_out' = MarkdownOf(dm_lines, dm_meta, dm_opts.include_metadata)
    /\ dm_pc' = "done"
    /\ UNCHANGED <<dm_doc, dm_opts, dm_meta, dm_lines, dm_k, dmOthers>>

NextMarkdown == DMMetadata \/ DMParagraph \/ DMParagraphsEnd \/ DMTable \/ DMReturn

SpecMarkdown == InitMarkdown /\ [][NextMarkdown]_vars

(***************************************************************************)
(* Claims about docx_to_markdown (SpecMarkdown).                            *)
(***************************************************************************)
DMDone == dm_pc = "done"

\* the level of a heading style, 0 for any other style
StyleLevel(style) ==
    IF style = <<"T", "i", "t", "l", "e">> THEN 1
    ELSE IF \E n \in 1..4 : style = <<"H", "e", "a", "d", "i", "n", "g", " ">> \o <<DigitOf[n + 1]>>
    THEN CHOOSE n \in 1..4 : style = <<"H", "e", "a", "d", "i", "n", "g", " ">> \o <<DigitOf[n + 1]>>
    ELSE 0

\* the one line of a paragraph whose text, without the blanks around it, is text
LineOfText(paragraph, text) ==
    IF text = <<>> THEN <<>>
    ELSE IF StyleLevel(paragraph.style) > 0
    THEN [k \in 1..StyleLevel(paragraph.style) |-> "#"] \o <<" ">> \o text
    ELSE IF paragraph.alignment = "CENTER" THEN <<"<", "c", "e", "n", "t", "e", "r", ">">> \o text \o <<"<", "/", "c", "e", "n", "t", "e", "r", ">">>
    ELSE text

ExpectedLine(paragraph) == LineOfText(paragraph, Strip(paragraph.text))

\* C16: the text returned for a document of paragraphs only has exactly one
\* line per paragraph, in their order: a blank line for an empty paragraph, the
\* marks of the level and the text for a heading style or "Title", the text in
\* <center> tags for a centered paragraph that is not a heading, and the text
\* itself for any other paragraph.
C16_OneLinePerParagraph ==
    (DMDone /\ dm_doc.tables = <<>> /\ dm_meta = <<>> /\ dm_doc.paragraphs # <<>>) =>
        SplitOn(dm_out, "\n")
            = [k \in 1..Len(dm_doc.paragraphs) |-> ExpectedLine(dm_doc.paragraphs[k])]

\* a row of a Markdown table: a bar, then every cell between blanks and a bar
PipeRow(cells) == <<"|">> \o Flatten([k \in 1..Len(cells) |-> <<" ">> \o cells[k] \o <<" ", "|">>])

\* the rows of a table: the header, the separator, the data rows
ExpectedRows(table) ==
    IF table = <<>> THEN <<>>
    ELSE <<PipeRow(StrippedCells(table[1])),
           PipeRow([k \in 1..Len(table[1]) |-> <<"-", "-", "-">>])>>
         \o [r \in 1..(Len(table) - 1) |-> PipeRow(StrippedCells(table[r + 1]))]

RECURSIVE NonBlank(_)
\* the lines that are not blank
NonBlank(lines) ==
    IF lines = <<>> THEN <<>>
    ELSE (IF Head(lines) = <<>> THEN <<>> ELSE <<Head(lines)>>) \o NonBlank(Tail(lines))

\* C17: in the text returned the lines of the paragraphs come first and the
\* tables after them, in their order; a table with a row is its first row as
\* header row, one separator row with as many --- cells as the header has
\* columns, and one row for each further row, in their order.
C17_TablesAfterParagraphs ==
    (DMDone /\ dm_meta = <<>>) =>
        /\ dm_out = JoinWith(dm_lines, <<"\n">>)
        /\ Len(dm_lines) >= Len(dm_doc.paragraphs)
        /\ \A k \in 1..Len(dm_doc.paragraphs) : dm_lines[k] = ExpectedLine(dm_doc.paragraphs[k])
        /\ NonBlank(SubSeq(dm_lines, Len(dm_doc.paragraphs) + 1, Len(dm_lines)))
               = Flatten([t \in 1..Len(dm_doc.tables) |-> ExpectedRows(dm_doc.tables[t])])

\* a paragraph, a table of three rows and a table of one row have been written
C17_TwoTablesWritten ==
    /\ DMDone
    /\ dm_doc.paragraphs = <<PlainParagraph>>
    /\ Len(dm_doc.tables) = 2
    /\ Len(dm_doc.tables[1]) = 3 /\ Len(dm_doc.tables[2]) = 1
    /\ dm_out = <<"a", "b", "\n", "\n", "|", " ", "h", " ", "|", " ", "g", " ", "|", "\n", "|", " ", "-", "-", "-", " ", "|", " ", "-", "-", "-", " ", "|", "\n", "|", " ", "1", " ", "|", " ", " ", "|", "\n", "|", " ", "3", " ", "|", "\n", "\n", "\n", "|", " ", "h", " ", "|", "\n", "|", " ", "-", "-", "-", " ", "|", "\n">>

\* the dates of CoreProps, written as YYYY-MM-DD
WrittenDate(date) ==
    CASE date = DateObj(2024, 2, 9) -> <<"2", "0", "2", "4", "-", "0", "2", "-", "0", "9">>
      [] date = DateObj(2025, 11, 30) -> <<"2", "0", "2", "5", "-", "1", "1", "-", "3", "0">>

\* the line of a key of the metadata block, no line for a property not set
KeyLine(key, is_set, value) ==
    IF is_set THEN key \o <<":", " ">> \o value \o <<"\n">> ELSE <<>>

\* the lines of the properties that are set
ExpectedKeys(props) ==
    KeyLine(<<"t", "i", "t", "l", "e">>, props.title # Str(<<>>), props.title.text)
    \o KeyLine(<<"a", "u", "t", "h", "o", "r">>, props.author # Str(<<>>), props.author.text)
    \o KeyLine(<<"d", "a", "t", "e">>, props.created # None, WrittenDate(props.created))
    \o KeyLine(<<"m", "o", "d", "i", "f", "i", "e", "d">>, props.modified # None, WrittenDate(props.modified))

\* C18: the metadata holds a key only for a property that is set (title,
\* author, date from created as YYYY-MM-DD, modified) and no empty value; the
\* block of its key: value lines between --- lines is put before the body iff
\* include_metadata is set and a property is set, and otherwise the text
\* returned is exactly the body.
C18_MetadataBlock ==
    DMDone =>
        /\ \A k \in 1..Len(dm_meta) : dm_meta[k][2] # <<>>
        /\ dm_out
               = (IF dm_opts.include_metadata /\ ExpectedKeys(dm_doc.props) # <<>>
                  THEN <<"-", "-", "-", "\n">> \o ExpectedKeys(dm_doc.props) \o <<"-", "-", "-", "\n">> \o JoinWith(dm_lines, <<"\n">>)
                  ELSE JoinWith(dm_lines, <<"\n">>))

\* a document with a paragraph, an author and a creation date but no title has
\* been written with its metadata
C18_AuthorAndDateWritten ==
    /\ DMDone
    /\ dm_opts.include_metadata
    /\ dm_doc.props.title = Str(<<>>) /\ dm_doc.props.modified = None
    /\ dm_out = <<"-", "-", "-", "\n", "a", "u", "t", "h", "o", "r", ":", " ", "w", "\n", "d", "a", "t", "e", ":", " ", "2", "0", "2", "4", "-", "0", "2", "-", "0", "9", "\n", "-", "-", "-", "\n", "a", "b">>

(***************************************************************************)
(* The round trip: docx_to_markdown, markdown_to_docx on its text with an   *)
(* empty metadata map, docx_to_markdown on the document saved.  The first   *)
(* document is built from items; an item is given with its paragraphs, the  *)
(* Markdown lines docx_to_markdown writes for them and the HTML blocks the  *)
(* renderer (markdown2 with break-on-newline, tables and header-ids) makes  *)
(* of these lines.  Items are set apart by an empty paragraph.              *)
(***************************************************************************)
RTItem(paragraphs, lines, blocks) == [paragraphs |-> paragraphs, lines |-> lines, blocks |-> blocks]

RoundTripItems ==
    {RTItem(<<PlainParagraph>>, <<<<"a", "b">>>>, <<<<"<", "p", ">", "a", "b", "<", "/", "p", ">">>>>),
     RTItem(<<PlainParagraph, MkParagraph(<<"c", "d">>, <<"N", "o", "r", "m", "a", "l">>, "")>>, <<<<"a", "b">>, <<"c", "d">>>>,
            <<<<"<", "p", ">", "a", "b", "<", "b", "r", " ", "/", ">", "\n", "c", "d", "<", "/", "p", ">">>>>),
     RTItem(<<MkParagraph(<<"a", "b">>, <<"T", "i", "t", "l", "e">>, "CENTER")>>, <<<<"#", " ", "a", "b">>>>,
            <<<<"<", "h", "1", " ", "i", "d", "=", "\"", "a", "b", "\"", ">", "a", "b", "<", "/", "h", "1", ">">>>>),
     RTItem(<<MkParagraph(<<"c", "d">>, <<"H", "e", "a", "d", "i", "n", "g", " ", "2">>, "")>>, <<<<"#", "#", " ", "c", "d">>>>,
            <<<<"<", "h", "2", " ", "i", "d", "=", "\"", "c", "d", "\"", ">", "c", "d", "<", "/", "h", "2", ">">>>>),
     RTItem(<<MkParagraph(<<"a", "b">>, <<"N", "o", "r", "m", "a", "l">>, "CENTER")>>, <<<<"<", "c", "e", "n", "t", "e", "r", ">", "a", "b", "<", "/", "c", "e", "n", "t", "e", "r", ">">>>>,
            <<<<"<", "p", ">", "<", "c", "e", "n", "t", "e", "r", ">", "a", "b", "<", "/", "c", "e", "n", "t", "e", "r", ">", "<", "/", "p", ">">>>>),
     RTItem(<<MkParagraph(<<"a", "b">>, <<"L", "i", "s", "t", " ", "B", "u", "l", "l", "e", "t">>, "")>>, <<<<"a", "b">>>>, <<<<"<", "p", ">", "a", "b", "<", "/", "p", ">">>>>)}

\* a table of a header row and a data row, its lines and its HTML
RoundTripTable ==
    [table |-> << <<<<"h">>, <<"g">>>>, <<<<"1">>, <<"2">>>> >>,
     lines |-> <<<<"|", " ", "h", " ", "|", " ", "g", " ", "|">>, <<"|", " ", "-", "-", "-", " ", "|", " ", "-", "-", "-", " ", "|">>, <<"|", " ", "1", " ", "|", " ", "2", " ", "|">>>>,
     blocks |-> <<<<"<", "t", "a", "b", "l", "e", ">", "\n", "<", "t", "h", "e", "a", "d", ">", "\n", "<", "t", "r", ">", "\n", " ", " ", "<", "t", "h", ">", "h", "<", "/", "t", "h", ">", "\n", " ", " ", "<", "t", "h", ">", "g", "<", "/", "t", "h", ">", "\n", "<", "/", "t", "r", ">", "\n", "<", "/", "t", "h", "e", "a", "d", ">", "\n", "<", "t", "b", "o", "d", "y", ">", "\n", "<", "t", "r", ">", "\n", " ", " ", "<", "t", "d", ">", "1", "<", "/", "t", "d", ">", "\n", " ", " ", "<", "t", "d", ">", "2", "<", "/", "t", "d", ">", "\n", "<", "/", "t", "r", ">", "\n", "<", "/", "t", "b", "o", "d", "y", ">", "\n", "<", "/", "t", "a", "b", "l", "e", ">">>>>]

\* the front matter of a title, and what the renderer makes of it: a rule,
\* and the key line as a heading underlined by the closing ---
TitleFrontMatter ==
    [lines |-> <<<<"-", "-", "-">>, <<"t", "i", "t", "l", "e", ":", " ", "T">>, <<"-", "-", "-">>>>,
     blocks |-> <<<<"<", "h", "r", " ", "/", ">">>, <<"<", "h", "2", " ", "i", "d", "=", "\"", "t", "i", "t", "l", "e", "-", "t", "\"", ">", "t", "i", "t", "l", "e", ":", " ", "T", "<", "/", "h", "2", ">">>>>]

MkRoundTrip(items, tables, title, include_metadata) ==
    [items |-> items, tables |-> tables, title |-> title, include_metadata |-> include_metadata]

RoundTrips ==
    {MkRoundTrip(items, tables, title, m) :
        items \in SeqsUpTo(RoundTripItems, MaxParagraphs), tables \in SeqsUpTo({RoundTripTable}, 1),
        title \in {Str(<<>>), Str(<<"T">>)}, m \in BOOLEAN}

EmptyParagraph == MkParagraph(<<>>, <<"N", "o", "r", "m", "a", "l">>, "")

RECURSIVE SetApart(_, _)
\* the parts of the items, with sep between one item and the next
SetApart(parts, sep) ==
    IF parts = <<>> THEN <<>>
    ELSE IF Len(parts) = 1 THEN Head(parts)
    ELSE Head(parts) \o sep \o SetApart(Tail(parts), sep)

\* the document the round trip starts from
FirstDocx(rt) ==
    MkDocx(SetApart([k \in 1..Len(rt.items) |-> rt.items[k].paragraphs], <<EmptyParagraph>>),
           [k \in 1..Len(rt.tables) |-> rt.tables[k].table],
           [NoCoreProps EXCEPT !.title = rt.title])

HasFrontMatter(rt) == rt.include_metadata /\ rt.title # Str(<<>>)

\* the Markdown of the first document, as its items give it
GivenMarkdown(rt) ==
    (IF HasFrontMatter(rt) THEN JoinWith(TitleFrontMatter.lines, <<"\n">>) \o <<"\n">> ELSE <<>>)
    \o JoinWith(SetApart([k \in 1..Len(rt.items) |-> rt.items[k].lines], <<<<>>>>)
                \o Flatten([k \in 1..Len(rt.tables) |->
                               <<<<>>>> \o rt.tables[k].lines \o <<<<>>>>]),
                <<"\n">>)

\* the HTML blocks the renderer makes of it
Rendered(rt) ==
    (IF HasFrontMatter(rt) THEN TitleFrontMatter.blocks ELSE <<>>)
    \o Flatten([k \in 1..Len(rt.items) |-> rt.items[k].blocks])
    \o Flatten([k \in 1..Len(rt.tables) |-> rt.tables[k].blocks])

\* paragraph.style.name of a block of a document that was saved
StyleNameOf(b) ==
    IF b.kind = "heading" THEN <<"H", "e", "a", "d", "i", "n", "g", " ">> \o <<DigitOf[b.level + 1]>>
    ELSE IF b.style = "List Bullet" THEN <<"L", "i", "s", "t", " ", "B", "u", "l", "l", "e", "t">>
    ELSE IF b.style = "List Number" THEN <<"L", "i", "s", "t", " ", "N", "u", "m", "b", "e", "r">>
    ELSE <<"N", "o", "r", "m", "a", "l">>

RECURSIVE ParagraphsOf(_)
\* doc.paragraphs of a document that was saved
ParagraphsOf(doc) ==
    IF doc = <<>> THEN <<>>
    ELSE (IF Head(doc).kind = "table" THEN <<>>
          ELSE <<MkParagraph(BlockText(Head(doc)), StyleNameOf(Head(doc)), AlignmentOf(Head(doc)))>>)
         \o ParagraphsOf(Tail(doc))

RECURSIVE TablesOfDoc(_)
\* doc.tables of a document that was saved
TablesOfDoc(doc) ==
    IF doc = <<>> THEN <<>>
    ELSE (IF Head(doc).kind = "table"
          THEN <<[r \in 1..Len(Head(doc).rows) |->
                     [c \in 1..Len(Head(doc).rows[r]) |-> Head(doc).rows[r][c].text]]>>
          ELSE <<>>)
         \o TablesOfDoc(Tail(doc))

\* a core property read from the file: the text, empty when it was not set
ReadText(v) == IF v = None THEN Str(<<>>) ELSE v

\* Document(path) of the file markdown_to_docx saved
SavedDocx(doc, props) ==
    MkDocx(ParagraphsOf(doc), TablesOfDoc(doc),
           [title |-> ReadText(props.title), author |-> ReadText(props.author),
            created |-> props.created, modified |-> None])

InitRoundTrip ==
    \/ /\ rt_in \in RoundTrips
       /\ rt_first = <<>>
       /\ rt_pc = "first"
       /\ DMCalled(FirstDocx(rt_in), rt_in.include_metadata)
       /\ exIdle /\ spIdle /\ rtOthersIdle
    \/ InitExport

\* markdown_to_docx is called with the text docx_to_markdown returned
RTAssemble ==
    /\ rt_pc = "first"
    /\ dm_pc = "done"
    /\ dm_out = GivenMarkdown(rt_in)
    /\ rt_first' = dm_out
    /\ rt_pc' = "assemble"
    /\ ex_in' = MkExport(Rendered(rt_in), <<>>)
    /\ ex_meta' = <<>>
    /\ ex_opts' = DefaultOpts
    /\ ex_props' = NoProps
    /\ ex_doc' = <<>>
    /\ ex_html' = <<>>
    /\ ex_pc' = "properties"
    /\ UNCHANGED <<rt_in, spVars, dmVars, rtOthers>>

\* docx_to_markdown is called with the file markdown_to_docx saved
RTReread ==
    /\ rt_pc = "assemble"
    /\ ex_pc = "saved"
    /\ rt_pc' = "second"
    /\ dm_doc' = SavedDocx(sp_st.doc, ex_props)
    /\ dm_meta' = <<>>
    /\ dm_lines' = <<>>
    /\ dm_k' = 1
    /\ dm_out' = <<>>
    /\ dm_pc' = "metadata"
    /\ UNCHANGED <<rt_in, rt_first, dm_opts, exVars, spVars, rtOthers>>

NextRoundTrip == NextMarkdown \/ RTAssemble \/ NextExport \/ RTReread

SpecRoundTrip == InitRoundTrip /\ [][NextRoundTrip]_vars

(***************************************************************************)
(* Claims about the round trip (SpecRoundTrip).                             *)
(***************************************************************************)
RTDone == rt_pc = "second" /\ dm_pc = "done"

\* the index of the line that closes the front matter the lines begin with
FrontMatterEnd(lines) ==
    IF Len(lines) >= 2 /\ lines[1] = <<"-", "-", "-">> /\ \E k \in 2..Len(lines) : lines[k] = <<"-", "-", "-">>
    THEN SetMin({k \in 2..Len(lines) : lines[k] = <<"-", "-", "-">>})
    ELSE 0

\* a line without the <center> tags around it
Uncentered(line) ==
    IF StartsWith(line, <<"<", "c", "e", "n", "t", "e", "r", ">">>) /\ EndsWith(line, <<"<", "/", "c", "e", "n", "t", "e", "r", ">">>)
    THEN SubSeq(line, 9, Len(line) - 9)
    ELSE line

\* the text a reader sees in the lines: the lines that are not blank, headings
\* with their marks, paragraphs and table rows, without <center> tags
VisibleLines(lines) == [k \in 1..Len(NonBlank(lines)) |-> Uncentered(NonBlank(lines)[k])]

\* the visible text of a Markdown text: its lines after the front matter
VisibleText(lines) == VisibleLines(SubSeq(lines, FrontMatterEnd(lines) + 1, Len(lines)))

\* C19: the text of the second docx_to_markdown shows what the text of the
\* first shows: the same headings at the same levels, the same paragraph texts
\* in the same order and the same table rows.
C19_RoundTripVisible ==
    RTDone => VisibleText(SplitOn(dm_out, "\n")) = VisibleText(SplitOn(rt_first, "\n"))

(***************************************************************************)
(* DocumentConverter.format_date and markdown_to_html, statement by         *)
(* statement.  A dict is an object: the heap holds the caller's dict        *)
(* ("metadata") and the dict copy() makes ("copy"), a name of the function  *)
(* refers to one of them, and an item assignment changes the dict the name  *)
(* refers to.                                                               *)
(***************************************************************************)
\* the IndexError of date_str.split()[0] on a text without a word
IndexError == [type |-> "IndexError", text |-> <<>>, ymd |-> <<>>]

\* date_value.strftime('%d.%m.%Y')
StrftimeDotted(date) ==
    TwoDigits(date.ymd[3]) \o <<".">> \o TwoDigits(date.ymd[2]) \o <<".">> \o FourDigits(date.ymd[1])

\* lines 76-79: three parts between dots, of at most 2, at most 2 and 4 characters
IsDotted(date_str) ==
    /\ Len(SplitOn(date_str, ".")) = 3
    /\ Len(SplitOn(date_str, ".")[1]) <= 2
    /\ Len(SplitOn(date_str, ".")[2]) <= 2
    /\ Len(SplitOn(date_str, ".")[3]) = 4

\* lines 84, 94: date_str.split()[0] if ' ' in date_str else date_str; the
\* empty text stands for the IndexError
DatePart(date_str) ==
    IF \E j \in 1..Len(date_str) : date_str[j] = " "
    THEN (IF Words(date_str) = <<>> THEN <<>> ELSE FirstWord(date_str))
    ELSE date_str

\* line 91: '%Y-%m-%d', '%d.%m.%Y', '%d/%m/%Y', '%Y/%m/%d'
formats ==
    DateFormats
    \o << DirectiveY \o <<Lit(<<"/">>)>> \o DirectiveM \o <<Lit(<<"/">>)>> \o DirectiveD >>

RECURSIVE FormatLoop(_, _)
\* lines 92-101: the first format that parses gives the date; a text of
\* blanks raises at split()[0], which the except clause does not catch; a
\* text no format parses is returned as it is
FormatLoop(date_str, k) ==
    IF k > Len(formats) THEN Str(date_str)
    ELSE IF DatePart(date_str) = <<>> THEN IndexError
    ELSE IF Strptime(DatePart(date_str), formats[k]).type = "date"
    THEN Str(StrftimeDotted(Strptime(DatePart(date_str), formats[k])))
    ELSE FormatLoop(date_str, k + 1)

\* lines 82-88: the ISO format is tried first on a text with a '-'
IsoParsed(date_str) ==
    IF \E j \in 1..Len(date_str) : date_str[j] = "-"
    THEN Strptime(DatePart(date_str), formats[1])
    ELSE None

\* lines 56-101
format_date(date_value) ==
    IF ~Truthy(date_value) THEN None
    ELSE IF date_value.type = "date" THEN Str(StrftimeDotted(date_value))
    ELSE IF IsDotted(date_value.text) THEN date_value
    ELSE IF IsoParsed(date_value.text).type = "date"
    THEN Str(StrftimeDotted(IsoParsed(date_value.text)))
    ELSE FormatLoop(date_value.text, 1)

\* d[key] = v on the dict the name refers to
SetItem(heap, name, key, v) ==
    [heap EXCEPT ![name] = [k \in (DOMAIN @) \cup {key} |-> IF k = key THEN v ELSE @[k]]]

\* formatted_metadata = metadata: a second name of the caller's dict
SameDict(heap, name) == [heap |-> heap, name |-> name]

\* line 573: metadata.copy() is a new dict with the same keys and values
DictCopy(heap, name) == [heap |-> [heap EXCEPT !.copy = heap[name]], name |-> "copy"]

\* line 570: metadata.get('title', metadata.get('number', 'Документ'))
TitleOf(metadata) ==
    IF "title" \in DOMAIN metadata THEN metadata["title"]
    ELSE IF "number" \in DOMAIN metadata THEN metadata["number"]
    ELSE Str(<<"d", "o", "k", "u", "m", "e", "n", "t">>)

(***************************************************************************)
(* The calls of markdown_to_html: the document record is the metadata, as   *)
(* generate_html passes it, so it holds the content beside the fields.  The *)
(* body is a bold label with one item line, which the renderer leaves in    *)
(* one paragraph; it holds no link, so the two link passes (lines 329-333)  *)
(* find nothing to replace.                                                 *)
(***************************************************************************)
HtmlBodies ==
    {in \in ListInputs :
        /\ in.form = "inside" /\ in.before = NoContext /\ in.gap = <<>> /\ in.after = <<>>
        /\ in.items = <<MkItem(<<"c">>, <<"c">>)>>}

\* the Markdown the renderer makes ListsHtml(body) of
BodyMarkdown(body) == <<"*", "*">> \o body.label \o <<":", "*", "*", "\n", "-", " ">> \o body.items[1].raw

HtmlDates ==
    {Absent, None, Str(<<" ">>), LeapDay,
     Str(<<"2", "0", "2", "4", "-", "0", "2", "-", "2", "9">>), Str(<<"2", "0", "2", "4", "-", "0", "2", "-", "2", "9", " ", "1", "0", ":", "3", "0">>), Str(<<"2", "0", "2", "3", "-", "0", "2", "-", "2", "9">>),
     Str(<<"1", ".", "2", ".", "2", "0", "2", "4">>), Str(<<"2", "9", "/", "0", "2", "/", "2", "0", "2", "4">>), Str(<<"2", "0", "2", "4", "/", "2", "/", "9">>)}

HtmlFields ==
    {[title |-> t, number |-> n, approved_date |-> a, effective_date |-> e,
      expiry_date |-> x, date |-> d] :
        t \in {Absent, Str(<<"t">>)}, n \in {Absent, Str(<<"7">>)},
        a \in {Absent, Str(<<"2", "0", "2", "4", "-", "0", "2", "-", "2", "9">>), LeapDay}, e \in {Absent, None},
        x \in {Absent, Str(<<"3", "1", ".", "1", "2", ".", "2", "0", "2", "4">>)}, d \in HtmlDates}

\* the document record: the fields present and the content
DocumentOf(in) ==
    [k \in (DOMAIN MkMetadata(in.fields)) \cup {"content"} |->
        IF k = "content" THEN Str(BodyMarkdown(in.body)) ELSE in.fields[k]]

\* lines 309-310: the arguments of the call
InitHtml ==
    /\ \E body \in HtmlBodies, f \in HtmlFields, standalone \in BOOLEAN, hide \in BOOLEAN :
           /\ mh_in = [body |-> body, fields |-> f, standalone |-> standalone,
                       hide_technical |-> hide]
           /\ mh_heap = [metadata |-> DocumentOf(mh_in), copy |-> <<>>]
    /\ mh_formatted_metadata = ""
    /\ mh_html = <<>>
    /\ mh_title = <<>>
    /\ mh_out = <<>>
    /\ mh_pc = "markdown"
    /\ flIdle
    /\ mhOthersIdle

\* what a call returns
Returned(kind, title, metadata, content, hide) ==
    [kind |-> kind, title |-> title, metadata |-> metadata, content |-> content,
     hide_technical |-> hide]

\* lines 319-322: html_content = markdown2.markdown(markdown_content, ...)
MHMarkdown ==
    /\ mh_pc = "markdown"
    /\ mh_html' = ListsHtml(mh_in.body)
    /\ mh_pc' = "lists"
    /\ UNCHANGED <<mh_in, mh_heap, mh_formatted_metadata, mh_title, mh_out, flVars, mhOthers>>

\* line 326: self._fix_broken_lists(html_content) is entered
MHFixLists ==
    /\ mh_pc = "lists"
    /\ fl_in' = mh_in.body
    /\ fl_html' = mh_html
    /\ fl_pc' = "pattern2"
    /\ mh_pc' = "links"
    /\ UNCHANGED <<mh_in, mh_heap, mh_formatted_metadata, mh_html, mh_title, mh_out, mhOthers>>

\* lines 326-336: the call has returned; the link passes read relative_path,
\* number and organization of the metadata; the content alone is returned
\* when the page is not standalone
MHLinks ==
    /\ mh_pc = "links"
    /\ fl_pc = "done"
    /\ mh_html' = fl_html
    /\ IF mh_in.standalone
       THEN mh_pc' = "title" /\ mh_out' = mh_out
       ELSE /\ mh_pc' = "done"
            /\ mh_out' = Returned("content", None, <<>>, fl_html, FALSE)
    /\ UNCHANGED <<mh_in, mh_heap, mh_formatted_metadata, mh_title, flVars, mhOthers>>

\* line 570
MHTitle ==
    /\ mh_pc = "title"
    /\ mh_title' = TitleOf(mh_heap.metadata)
    /\ mh_pc' = "copy"
    /\ UNCHANGED <<mh_in, mh_heap, mh_formatted_metadata, mh_html, mh_out, flVars, mhOthers>>

\* line 573: formatted_metadata = metadata.copy()
MHCopy ==
    /\ mh_pc = "copy"
    /\ mh_heap' = DictCopy(mh_heap, "metadata").heap
    /\ mh_formatted_metadata' = DictCopy(mh_heap, "metadata").name
    /\ mh_pc' = "approved_date"
    /\ UNCHANGED <<mh_in, mh_html, mh_title, mh_out, flVars, mhOthers>>

\* if key in formatted_metadata:
\*     formatted_metadata[key] = self.format_date(formatted_metadata[key])
MHFormat(key, next) ==
    /\ mh_pc = key
    /\ IF key \notin DOMAIN mh_heap[mh_formatted_metadata]
       THEN mh_heap' = mh_heap /\ mh_pc' = next
       ELSE IF format_date(mh_heap[mh_formatted_metadata][key]) = IndexError
       THEN mh_heap' = mh_heap /\ mh_pc' = "raised"
       ELSE /\ mh_heap' = SetItem(mh_heap, mh_formatted_metadata, key,
                                  format_date(mh_heap[mh_formatted_metadata][key]))
            /\ mh_pc' = next
    /\ UNCHANGED <<mh_in, mh_formatted_metadata, mh_html, mh_title, mh_out, flVars, mhOthers>>

\* lines 574-575
MHApproved == MHFormat("approved_date", "effective_date")

\* lines 576-577
MHEffective == MHFormat("effective_date", "expiry_date")

\* lines 578-579
MHExpiry == MHFormat("expiry_date", "date")

\* lines 580-581
MHDate == MHFormat("date", "render")

\* lines 583-588: the template is rendered with these arguments
MHRender ==
    /\ mh_pc = "render"
    /\ mh_out' = Returned("page", mh_title, mh_heap[mh_formatted_metadata], mh_html,
                          mh_in.hide_technical)
    /\ mh_pc' = "done"
    /\ UNCHANGED <<mh_in, mh_heap, mh_formatted_metadata, mh_html, mh_title, flVars, mhOthers>>

NextHtml ==
    \/ MHMarkdown \/ MHFixLists \/ NextLists \/ MHLinks \/ MHTitle \/ MHCopy
    \/ MHApproved \/ MHEffective \/ MHExpiry \/ MHDate \/ MHRender

(***************************************************************************)
(* The two conversions a caller hands its document record to:               *)
(* markdown_to_html and markdown_to_docx.                                   *)
(***************************************************************************)
InitBorrow == InitHtml \/ InitDocx

NextBorrow == NextHtml \/ NextExport

SpecBorrow == InitBorrow /\ [][NextBorrow]_vars

(***************************************************************************)
(* Claims about the caller's document record (SpecBorrow).                  *)
(***************************************************************************)
MHDone == mh_pc = "done"

\* C20: a conversion never mutates the caller's document record.  At every
\* statement of markdown_to_html, standalone or not, and of markdown_to_docx,
\* and after the call has returned or raised, the metadata map the caller
\* passed has the keys and the values it was passed with, the content text
\* among them; the dates formatted for display are written to a copy.
C20_RecordBorrowed ==
    /\ mh_pc # "idle" => mh_heap.metadata = DocumentOf(mh_in)
    /\ ex_pc # "idle" => ex_meta = MetadataOf(CallFields)

\* a standalone page was rendered with the date formatted for display, and
\* the caller's record still holds the date as it was written
C20_DisplayDateOnCopy ==
    /\ MHDone
    /\ mh_out.kind = "page"
    /\ "date" \in DOMAIN mh_heap.metadata
    /\ mh_heap.metadata["date"] = Str(<<"2", "0", "2", "4", "-", "0", "2", "-", "2", "9", " ", "1", "0", ":", "3", "0">>)
    /\ mh_out.metadata["date"] = Str(<<"2", "9", ".", "0", "2", ".", "2", "0", "2", "4">>)
    /\ mh_heap.metadata["content"] = Str(BodyMarkdown(mh_in.body))

(***************************************************************************)
(* server.py, export_docx: two requests served by two threads (app.run      *)
(* serves each request in a thread of its own).  The documents directory    *)
(* does not change; a file of tmp is named by the stem of the document.  A  *)
(* file written by one request holds the DOCX of that request's document;   *)
(* a file that a second writer opened while the first had it open holds the *)
(* one's DOCX or a mixture of the two (torn).                               *)
(***************************************************************************)
Requests == {1, 2}

MkPath(dir, stem) == [dir |-> dir, stem |-> stem]

DocPaths == {MkPath(d, s) : d \in {"a", "b"}, s \in {"x", "y", "z"}}

\* what the documents directory holds at a path
OnDisk(path) ==
    CASE path = MkPath("b", "z") -> "missing"
      [] path = MkPath("a", "z") -> "unparseable"
      [] path = MkPath("b", "y") -> "unconvertible"
      [] OTHER -> "document"

NoFile == [kind |-> "none", of |-> MkPath("", "")]

\* the DOCX markdown_to_docx builds from the document at the path
DocxOf(path) == [kind |-> "docx", of |-> path]

\* a file two writers wrote to
Torn == [kind |-> "torn", of |-> MkPath("", "")]

NoWriters == [who |-> {}, raced |-> {}]

NoResponse == [status |-> 0, file |-> NoFile, download_name |-> ""]

Json(status) == [status |-> status, file |-> NoFile, download_name |-> ""]

InitRoute ==
    /\ xp_doc \in {d \in [Requests -> DocPaths] : d[1] # d[2]}
    /\ xp_tmp = [s \in {"x", "y", "z"} |-> NoFile]
    /\ xp_open = [s \in {"x", "y", "z"} |-> NoWriters]
    /\ xp_resp = [r \in Requests |-> NoResponse]
    /\ xp_pc = [r \in Requests |-> "find"]
    /\ xpOthersIdle

\* line 688: temp_dir / f"{doc_file.stem}.docx"
docx_path(r) == xp_doc[r].stem

XPReturn(r, response) ==
    /\ xp_resp' = [xp_resp EXCEPT ![r] = response]
    /\ xp_pc' = [xp_pc EXCEPT ![r] = "done"]

XPGoto(r, pc) ==
    /\ xp_pc' = [xp_pc EXCEPT ![r] = pc]
    /\ xp_resp' = xp_resp

\* lines 662-675
XPFind(r) ==
    /\ xp_pc[r] = "find"
    /\ IF OnDisk(xp_doc[r]) = "missing" THEN XPReturn(r, Json(404)) ELSE XPGoto(r, "parse")
    /\ UNCHANGED <<xp_doc, xp_tmp, xp_open, xpOthers>>

\* lines 677-688
XPParse(r) ==
    /\ xp_pc[r] = "parse"
    /\ IF OnDisk(xp_doc[r]) = "unparseable" THEN XPReturn(r, Json(500))
       ELSE XPGoto(r, "convert")
    /\ UNCHANGED <<xp_doc, xp_tmp, xp_open, xpOthers>>

\* the writers of a file after r has opened it: r has raced with every writer
\* that has it open, and each of them with r
Opened(w, r) ==
    [who |-> w.who \cup {r}, raced |-> IF w.who = {} THEN w.raced ELSE w.raced \cup w.who \cup {r}]

\* lines 691-697 and docx_converter.py 143-212: the document is built, and
\* doc.save opens the file, which empties it; an exception of the conversion
\* is answered with 500 (lines 705-706)
XPConvert(r) ==
    /\ xp_pc[r] = "convert"
    /\ IF OnDisk(xp_doc[r]) = "unconvertible"
       THEN XPReturn(r, Json(500)) /\ UNCHANGED <<xp_tmp, xp_open>>
       ELSE /\ XPGoto(r, "save")
            /\ xp_tmp' = [xp_tmp EXCEPT ![docx_path(r)] = Torn]
            /\ xp_open' = [xp_open EXCEPT ![docx_path(r)] = Opened(@, r)]
    /\ UNCHANGED <<xp_doc, xpOthers>>

\* docx_converter.py 212-213: doc.save writes the file and closes it
XPSave(r) ==
    /\ xp_pc[r] = "save"
    /\ \E written \in (IF r \in xp_open[docx_path(r)].raced THEN {DocxOf(xp_doc[r]), Torn}
                       ELSE {DocxOf(xp_doc[r])}) :
           xp_tmp' = [xp_tmp EXCEPT ![docx_path(r)] = written]
    /\ xp_open' = [xp_open EXCEPT ![docx_path(r)] =
                       [who |-> @.who \ {r}, raced |-> @.raced \ {r}]]
    /\ XPGoto(r, "send")
    /\ UNCHANGED <<xp_doc, xpOthers>>

\* lines 699-704: send_file opens the file at docx_path
XPSend(r) ==
    /\ xp_pc[r] = "send"
    /\ XPReturn(r, [status |-> 200, file |-> xp_tmp[docx_path(r)],
                    download_name |-> xp_doc[r].stem])
    /\ UNCHANGED <<xp_doc, xp_tmp, xp_open, xpOthers>>

NextRoute == \E r \in Requests : XPFind(r) \/ XPParse(r) \/ XPConvert(r) \/ XPSave(r) \/ XPSend(r)

SpecRoute == InitRoute /\ [][NextRoute]_vars

(***************************************************************************)
(* Claims about export_docx (SpecRoute).                                    *)
(***************************************************************************)
\* C21: two concurrent exports of two different documents do not interfere.
\* When markdown_to_docx has returned to a request, the file at its
\* docx_path holds the DOCX built from the request's own document, and a
\* request answered with a file is answered with the DOCX of its own
\* document, also when the two documents share the stem.
C21_ExportsIsolated ==
    \A r \in Requests :
        /\ xp_pc # <<>> /\ xp_pc[r] = "send" => xp_tmp[docx_path(r)] = DocxOf(xp_doc[r])
        /\ xp_pc # <<>> /\ xp_pc[r] = "done" /\ xp_resp[r].status = 200
               => xp_resp[r].file = DocxOf(xp_doc[r])

\* the same for two documents whose stems differ
C21_DistinctStemsIsolated ==
    xp_pc # <<>> /\ xp_doc[1].stem # xp_doc[2].stem => C21_ExportsIsolated

(***************************************************************************)
(* version_tracker.py: one document, its history file and its version       *)
(* files.  A document file holds a text; the date of its front matter is    *)
(* given as yaml.safe_load reads it: absent, a string (a quoted date) or a  *)
(* date object (an unquoted YYYY-MM-DD).  A record of the history holds the *)
(* fields the claims are about (version, author, comment, hash, the date of *)
(* the metadata, version_file); the timestamp and the other metadata fields *)
(* are left out.                                                            *)
(***************************************************************************)
MaxVersions == 3

Callers == {1, 2}

MkContent(date, body) == [exists |-> TRUE, date |-> date, body |-> body]

Missing == [exists |-> FALSE, date |-> Absent, body |-> <<>>]

Contents ==
    {MkContent(Absent, <<"a">>), MkContent(Absent, <<"b">>),
     MkContent(Absent, <<"a", "\r", "\n">>),
     MkContent(Str(<<"1", "5", ".", "0", "1", ".", "2", "0", "2", "4">>), <<"b">>),
     MkContent(DateObj(2024, 1, 15), <<"a">>)}

\* hashlib.md5(f.read()).hexdigest(): a number that stands for the digest,
\* different for different bytes
Md5(content) ==
    CASE content = MkContent(Absent, <<"a">>) -> 11
      [] content = MkContent(Absent, <<"b">>) -> 12
      [] content = MkContent(Absent, <<"a", "\r", "\n">>) -> 13
      [] content = MkContent(Str(<<"1", "5", ".", "0", "1", ".", "2", "0", "2", "4">>), <<"b">>) -> 14
      [] OTHER -> 15

\* f.read() of a file opened in text mode: a line end is read as "\n"
ReadTextMode(content) ==
    [content EXCEPT !.body = Replace(Replace(@, <<"\r", "\n">>, <<"\n">>), <<"\r">>, <<"\n">>)]

\* the states of the history file: no file, a JSON list of records, or the
\* start of a JSON text that json.dump left when it raised
NoHistory == [kind |-> "none", records |-> <<>>]

JsonFile(records) == [kind |-> "json", records |-> records]

Partial == [kind |-> "partial", records |-> <<>>]

NoRecord ==
    [version |-> 0, author |-> "", comment |-> Str(<<>>), hash |-> 0, date |-> Absent,
     version_file |-> 0]

\* json.dump raises TypeError on a date object
Serializable(history) == \A i \in 1..Len(history) : history[i].date.type # "date"

\* lines 43-46, the writing: the file after json.dump(history, f)
Dumped(history) == IF Serializable(history) THEN JsonFile(history) ELSE Partial

NoResult == [kind |-> "none", record |-> NoRecord, content |-> Missing]

\* a call returns a record, a record with its content, or None; or it raises
Result(kind, record, content) == [kind |-> kind, record |-> record, content |-> content]

Returns(record) == Result("record", record, Missing)

ReturnsNone == Result("None", NoRecord, Missing)

Raises(error) == Result(error, NoRecord, Missing)

IdleCall ==
    [op |-> "", pc |-> "idle", author |-> "", comment |-> None, version |-> 0,
     history |-> <<>>, current_hash |-> 0, change_record |-> NoRecord, raced |-> FALSE,
     result |-> NoResult]

\* author and comment of a call; None is the default of comment
TrackArgs == {[author |-> "u1", comment |-> None], [author |-> "u2", comment |-> Str(<<"c">>)]}

InFlight(c) == c.pc \notin {"idle", "returned", "raised"}

InitTracker ==
    /\ vt_file \in Contents
    /\ vt_history = NoHistory
    /\ vt_versions = [v \in 1..(MaxVersions + 1) |-> Missing]
    /\ vt_calls = [t \in Callers |-> IdleCall]
    /\ vt_log = <<>>
    /\ vtOthersIdle

(***************************************************************************)
(* track_change and get_document_version, statement by statement.  The file *)
(* is edited between calls.                                                 *)
(***************************************************************************)
\* the document is written anew, or removed
VTEdit ==
    /\ \A t \in Callers : ~InFlight(vt_calls[t])
    /\ vt_file' \in (Contents \cup {Missing}) \ {vt_file}
    /\ UNCHANGED <<vt_history, vt_versions, vt_calls, vt_log, vtOthers>>

\* line 62: track_change(doc_path, author, comment) is called
VTTrack(t) ==
    /\ ~InFlight(vt_calls[t])
    /\ Len(vt_log) < MaxVersions
    /\ \E a \in TrackArgs :
           vt_calls' = [vt_calls EXCEPT ![t] =
               [IdleCall EXCEPT !.op = "track_change", !.pc = "exists",
                                !.author = a.author, !.comment = a.comment]]
    /\ UNCHANGED <<vt_file, vt_history, vt_versions, vt_log, vtOthers>>

\* lines 64-65
VTExists(t) ==
    /\ vt_calls[t].pc = "exists"
    /\ vt_calls' = [vt_calls EXCEPT ![t] =
           IF vt_file.exists THEN [@ EXCEPT !.pc = "load"]
           ELSE [@ EXCEPT !.pc = "returned", !.result = ReturnsNone]]
    /\ UNCHANGED <<vt_file, vt_history, vt_versions, vt_log, vtOthers>>

\* lines 36-41: json.load raises on a text that is not JSON
VTLoad(t) ==
    /\ vt_calls[t].pc = "load"
    /\ vt_calls' = [vt_calls EXCEPT ![t] =
           IF vt_history.kind = "partial"
           THEN [@ EXCEPT !.pc = "raised", !.result = Raises("JSONDecodeError")]
           ELSE [@ EXCEPT !.pc = "hash", !.history = vt_history.records]]
    /\ UNCHANGED <<vt_file, vt_history, vt_versions, vt_log, vtOthers>>

\* history[0]: the oldest record
FirstRecord(history) == history[1]

\* history[-1]
LastRecord(history) == history[Len(history)]

\* lines 70-75
VTHash(t) ==
    /\ vt_calls[t].pc = "hash"
    /\ vt_calls' = [vt_calls EXCEPT ![t] =
           IF vt_calls[t].history # <<>> /\ LastRecord(vt_calls[t].history).hash = Md5(vt_file)
           THEN [@ EXCEPT !.pc = "returned", !.current_hash = Md5(vt_file),
                          !.result = Returns(LastRecord(vt_calls[t].history))]
           ELSE [@ EXCEPT !.pc = "record", !.current_hash = Md5(vt_file)]]
    /\ UNCHANGED <<vt_file, vt_history, vt_versions, vt_log, vtOthers>>

\* comment or ''
OrEmpty(comment) == IF Truthy(comment) THEN comment ELSE Str(<<>>)

\* lines 77-98: the date is doc_metadata.get('date'), None when the front
\* matter has none
VTRecord(t) ==
    /\ vt_calls[t].pc = "record"
    /\ vt_calls' = [vt_calls EXCEPT ![t] =
           [@ EXCEPT !.pc = "version",
                     !.change_record =
                         [version |-> Len(vt_calls[t].history) + 1,
                          author |-> vt_calls[t].author,
                          comment |-> OrEmpty(vt_calls[t].comment),
                          hash |-> vt_calls[t].current_hash,
                          date |-> IF vt_file.date = Absent THEN None ELSE vt_file.date,
                          version_file |-> 0]]]
    /\ UNCHANGED <<vt_file, vt_history, vt_versions, vt_log, vtOthers>>

\* lines 100-102 and 48-60: shutil.copy2 to {stem}.v{version}.md
VTSaveVersion(t) ==
    /\ vt_calls[t].pc = "version"
    /\ vt_versions' = [vt_versions EXCEPT ![vt_calls[t].change_record.version] = vt_file]
    /\ vt_calls' = [vt_calls EXCEPT ![t] =
           [@ EXCEPT !.pc = "append",
                     !.change_record.version_file = vt_calls[t].change_record.version]]
    /\ UNCHANGED <<vt_file, vt_history, vt_log, vtOthers>>

\* lines 104-106 and 45: history.append(change_record); open(history_file,
\* 'w') empties the file; a caller that has the file open at the same time
\* as another has raced with it
VTOpenHistory(t) ==
    /\ vt_calls[t].pc = "append"
    /\ vt_history' = Partial
    /\ vt_calls' = [u \in Callers |->
           IF u = t
           THEN [vt_calls[t] EXCEPT !.pc = "dump",
                     !.history = Append(@, vt_calls[t].change_record),
                     !.raced = \E w \in Callers \ {t} : vt_calls[w].pc = "dump"]
           ELSE IF vt_calls[u].pc = "dump" THEN [vt_calls[u] EXCEPT !.raced = TRUE]
           ELSE vt_calls[u]]
    /\ UNCHANGED <<vt_file, vt_versions, vt_log, vtOthers>>

\* what the call has recorded
Logged(c) == [author |-> c.author, comment |-> c.comment, content |-> vt_file,
              record |-> c.change_record]

\* lines 46 and 108: json.dump(history, f), and the record is returned; two
\* callers that wrote at the same time leave the text of one of them or a
\* mixture
VTDumpHistory(t) ==
    /\ vt_calls[t].pc = "dump"
    /\ \E written \in (IF vt_calls[t].raced THEN {Dumped(vt_calls[t].history), Partial}
                       ELSE {Dumped(vt_calls[t].history)}) :
           vt_history' = written
    /\ IF Serializable(vt_calls[t].history)
       THEN /\ vt_calls' = [vt_calls EXCEPT ![t] =
                    [@ EXCEPT !.pc = "returned", !.result = Returns(vt_calls[t].change_record)]]
            /\ vt_log' = Append(vt_log, Logged(vt_calls[t]))
       ELSE /\ vt_calls' = [vt_calls EXCEPT ![t] =
                    [@ EXCEPT !.pc = "raised", !.result = Raises("TypeError")]]
            /\ vt_log' = vt_log
    /\ UNCHANGED <<vt_file, vt_versions, vtOthers>>

RECURSIVE FindVersion(_, _, _)
\* lines 119-127: the first record of the version whose version file exists,
\* with the text of the file; None when there is none
FindVersion(history, version, k) ==
    IF k > Len(history) THEN ReturnsNone
    ELSE IF history[k].version = version /\ vt_versions[history[k].version_file].exists
    THEN Result("record", history[k], ReadTextMode(vt_versions[history[k].version_file]))
    ELSE FindVersion(history, version, k + 1)

\* lines 115-127 and 110-113: get_document_version(doc_path, version)
VTGetVersion(t) ==
    /\ ~InFlight(vt_calls[t])
    /\ \E version \in 1..(MaxVersions + 1) :
           vt_calls' = [vt_calls EXCEPT ![t] =
               [IdleCall EXCEPT !.op = "get_document_version", !.version = version,
                   !.pc = IF vt_history.kind = "partial" THEN "raised" ELSE "returned",
                   !.result = IF vt_history.kind = "partial" THEN Raises("JSONDecodeError")
                              ELSE FindVersion(vt_history.records, version, 1)]]
    /\ UNCHANGED <<vt_file, vt_history, vt_versions, vt_log, vtOthers>>

\* the statements of track_change
VTStep(t) ==
    \/ VTTrack(t) \/ VTExists(t) \/ VTLoad(t) \/ VTHash(t) \/ VTRecord(t)
    \/ VTSaveVersion(t) \/ VTOpenHistory(t) \/ VTDumpHistory(t)

\* one caller: a call begins when the call before it has ended
NextTracker == VTEdit \/ VTStep(1) \/ VTGetVersion(1)

SpecTracker == InitTracker /\ [][NextTracker]_vars

\* two callers of track_change, whose calls interleave
NextTrackers == VTEdit \/ \E t \in Callers : VTStep(t)

SpecTrackers == InitTracker /\ [][NextTrackers]_vars

(***************************************************************************)
(* Claims about the version tracker with one caller (SpecTracker).          *)
(***************************************************************************)
\* no call is running
VTQuiet == vt_calls # <<>> /\ \A t \in Callers : ~InFlight(vt_calls[t])

\* the call of t returned at line 75, without building a record
ReturnedUnchanged(t) ==
    /\ vt_calls[t].op = "track_change"
    /\ vt_calls[t].pc = "returned"
    /\ vt_calls[t].result.kind = "record"
    /\ vt_calls[t].change_record = NoRecord

\* C22: after any sequence of track_change calls on one document, with edits
\* of the file between them, the stored history is a list whose i-th record
\* has version i; each recorded change has added one record at the end, with
\* the author and the comment of its caller, and the records before it are
\* as they were written.
C22_HistoryNumbered ==
    VTQuiet =>
        /\ vt_history.kind # "partial"
        /\ Len(vt_history.records) = Len(vt_log)
        /\ \A i \in 1..Len(vt_history.records) :
               /\ vt_history.records[i].version = i
               /\ vt_history.records[i].author = vt_log[i].author
               /\ vt_history.records[i].comment = OrEmpty(vt_log[i].comment)
               /\ vt_history.records[i] = vt_log[i].record

\* the same, as long as the history file can be read
C22_ReadableHistoryNumbered ==
    VTQuiet /\ vt_history.kind # "partial" =>
        /\ Len(vt_history.records) = Len(vt_log)
        /\ \A i \in 1..Len(vt_history.records) :
               /\ vt_history.records[i].version = i
               /\ vt_history.records[i] = vt_log[i].record

\* C23: track_change is idempotent on an unchanged file.  A call that finds
\* the hash of the file equal to the hash of the last record returns that
\* record, leaves the history as it loaded it and writes no version file
\* (there is one version file per record); a record is appended only when
\* the hash differs from the hash of the last record, so no two records in a
\* row have the same hash.
C23_UnchangedNotRecorded ==
    /\ \A t \in Callers :
           vt_calls # <<>> /\ ReturnedUnchanged(t) /\ VTQuiet =>
               /\ vt_history = JsonFile(vt_calls[t].history)
               /\ vt_calls[t].result.record = vt_history.records[Len(vt_history.records)]
               /\ vt_calls[t].result.record.hash = vt_calls[t].current_hash
               /\ \A v \in DOMAIN vt_versions :
                      vt_versions[v].exists <=> v <= Len(vt_history.records)
    /\ vt_history # <<>> =>
           \A i \in 1..(Len(vt_history.records) - 1) :
               vt_history.records[i].hash # vt_history.records[i + 1].hash

\* a call on an unchanged file has returned the second of two records
C23_SecondRecordReturned ==
    /\ vt_calls # <<>>
    /\ ReturnedUnchanged(1)
    /\ Len(vt_history.records) = 2
    /\ vt_calls[1].result.record.version = 2
    /\ vt_calls[1].current_hash = Md5(vt_file)

\* C24: for every version v recorded in the history, get_document_version
\* returns the record of version v with the content the file had when the
\* version was tracked, whatever edits and track_change calls came later;
\* for a version that was not recorded it returns None.
C24_VersionsRetrievable ==
    \A t \in Callers :
        vt_calls # <<>> /\ vt_calls[t].op = "get_document_version" =>
            IF vt_calls[t].version <= Len(vt_log)
            THEN /\ vt_calls[t].result.kind = "record"
                 /\ vt_calls[t].result.record.version = vt_calls[t].version
                 /\ vt_calls[t].result.content = ReadTextMode(vt_log[vt_calls[t].version].content)
            ELSE vt_calls[t].result = ReturnsNone

\* the same for the calls that could read the history file
C24_ReadableVersionsRetrievable ==
    \A t \in Callers :
        vt_calls # <<>> /\ vt_calls[t].op = "get_document_version"
        /\ vt_calls[t].result.kind # "JSONDecodeError" =>
            IF vt_calls[t].version <= Len(vt_log)
            THEN /\ vt_calls[t].result.kind = "record"
                 /\ vt_calls[t].result.record.version = vt_calls[t].version
                 /\ vt_calls[t].result.content = ReadTextMode(vt_log[vt_calls[t].version].content)
            ELSE vt_calls[t].result = ReturnsNone

(***************************************************************************)
(* Claims about two interleaved callers of track_change (SpecTrackers).     *)
(***************************************************************************)
\* C29: when two track_change calls for the same changed document interleave,
\* the stored history has the version numbers 1, 2, ... in its order, holds
\* the record every completed call wrote, and the version file of each
\* record holds the content its hash describes.  (Stated for the histories
\* that can be read.)
C29_NoRecordLost ==
    VTQuiet /\ vt_history.kind # "partial" =>
        /\ \A i \in 1..Len(vt_history.records) : vt_history.records[i].version = i
        /\ \A l \in 1..Len(vt_log) :
               \E i \in 1..Len(vt_history.records) :
                   /\ vt_history.records[i].author = vt_log[l].author
                   /\ vt_history.records[i].hash = vt_log[l].record.hash
        /\ \A i \in 1..Len(vt_history.records) :
               /\ vt_versions[vt_history.records[i].version_file].exists
               /\ Md5(vt_versions[vt_history.records[i].version_file]) = vt_history.records[i].hash

(***************************************************************************)
(* document_parser.py: get_all_documents and filter_documents.  An entry of *)
(* the documents directory has its path (the parts below the directory) and *)
(* what yaml.safe_load reads from its front matter: a map of fields, or no  *)
(* map at all (a front matter that is a list), which makes parse_document   *)
(* return None.  A document is the map parse_document returns, without the  *)
(* content and the attachments.                                             *)
(***************************************************************************)
MaxFiles == 2

MkFile(parts, parseable, front) == [parts |-> parts, parseable |-> parseable, front |-> front]

\* the front matter with the fields chosen to be present
Front(type, organization, department, status) ==
    MkMetadata([type |-> type, organization |-> organization, department |-> department,
                status |-> status])

DirFiles ==
    {MkFile(<< <<"x", ".", "m", "d">> >>, TRUE, Front(Absent, Absent, Absent, Absent)),
     MkFile(<< <<"o", "1">>, <<"d", "1">>, <<"y", ".", "m", "d">> >>, TRUE, Front(Str(<<"t", "1">>), Absent, Absent, Str(<<"s", "1">>))),
     MkFile(<< <<"o", "2">>, <<"d", "1">>, <<"z", ".", "m", "d">> >>, TRUE, Front(Str(<<"t", "2">>), Str(<<"o", "1">>), Absent, Absent)),
     MkFile(<< <<"o", "1">>, <<"d", "2">>, <<"w", ".", "m", "d">> >>, TRUE, Front(Str(<<"t", "1">>), None, Str(<<"d", "1">>), Str(<<"s", "1">>))),
     MkFile(<< <<"o", "1">>, <<"d", "1">>, <<"n", ".", "t", "x", "t">> >>, TRUE, Front(Str(<<"t", "1">>), Absent, Absent, Str(<<"s", "1">>))),
     MkFile(<< <<"o", "1">>, <<"d", "1">>, <<"b", "a", "d", ".", "m", "d">> >>, FALSE, Front(Absent, Absent, Absent, Absent))}

\* the directories: files of different paths, in any order
Directories ==
    {fs \in SeqsUpTo(DirFiles, MaxFiles) :
        \A i \in 1..Len(fs), j \in 1..Len(fs) : i # j => fs[i].parts # fs[j].parts}

\* the criteria: None is the default, the empty string is a criterion not filled in
Criteria ==
    [organization : {None, Str(<<>>), Str(<<"o", "1">>)}, department : {None, Str(<<"d", "1">>)},
     doc_type : {None, Str(<<"t", "1">>)}, status : {None, Str(<<"s", "1">>)}]

\* rglob('*.md'): the name ends with .md
IsMd(file) == EndsWith(file.parts[Len(file.parts)], <<".", "m", "d">>)

\* m with the key set to v
WithItem(m, key, v) == [k \in (DOMAIN m) \cup {key} |-> IF k = key THEN v ELSE m[k]]

\* lines 40-43: metadata.get(key, part) of a path of two parts or more
WithDefault(m, key, parts, n) ==
    IF Len(parts) >= 2 /\ key \notin DOMAIN m THEN WithItem(m, key, Str(parts[n])) ELSE m

\* lines 17-59, for a file that can be parsed
parse_document(file) ==
    WithDefault(
        WithDefault(WithItem(file.front, "relative_path", Str(JoinWith(file.parts, <<"/">>))),
                    "organization", file.parts, 1),
        "department", file.parts, 2)

\* the document lacks the field, or holds another value
RejectsWhenPresent(doc, key, criterion) ==
    Truthy(criterion) /\ key \in DOMAIN doc /\ doc[key] # criterion

\* lines 213-220: if criterion and doc.get(key) != criterion: continue
Rejects(doc, key, criterion) == Truthy(criterion) /\ Get(doc, key) # criterion

\* line 202: filter_documents(organization, department, doc_type, status)
InitFilter ==
    /\ dp_files \in Directories
    /\ dp_args \in Criteria
    /\ dp_documents = <<>>
    /\ dp_k = 1
    /\ dp_filtered = <<>>
    /\ dp_pc = "scan"
    /\ dpOthersIdle

\* lines 170-173: one file of rglob('*.md')
DPScan ==
    /\ dp_pc = "scan"
    /\ dp_k <= Len(dp_files)
    /\ dp_documents' =
           IF IsMd(dp_files[dp_k]) /\ dp_files[dp_k].parseable
           THEN Append(dp_documents, parse_document(dp_files[dp_k]))
           ELSE dp_documents
    /\ dp_k' = dp_k + 1
    /\ UNCHANGED <<dp_files, dp_args, dp_filtered, dp_pc, dpOthers>>

\* lines 175 and 207-209: get_all_documents returns; filtered = []
DPScanEnd ==
    /\ dp_pc = "scan"
    /\ dp_k > Len(dp_files)
    /\ dp_k' = 1
    /\ dp_pc' = "filter"
    /\ UNCHANGED <<dp_files, dp_args, dp_documents, dp_filtered, dpOthers>>

\* lines 210-219: one document of the loop
DPFilter ==
    /\ dp_pc = "filter"
    /\ dp_k <= Len(dp_documents)
    /\ dp_filtered' =
           IF \/ Rejects(dp_documents[dp_k], "organization", dp_args.organization)
              \/ Rejects(dp_documents[dp_k], "department", dp_args.department)
              \/ Rejects(dp_documents[dp_k], "type", dp_args.doc_type)
              \/ Rejects(dp_documents[dp_k], "status", dp_args.status)
           THEN dp_filtered
           ELSE Append(dp_filtered, dp_documents[dp_k])
    /\ dp_k' = dp_k + 1
    /\ UNCHANGED <<dp_files, dp_args, dp_documents, dp_pc, dpOthers>>

\* line 221
DPReturn ==
    /\ dp_pc = "filter"
    /\ dp_k > Len(dp_documents)
    /\ dp_pc' = "done"
    /\ UNCHANGED <<dp_files, dp_args, dp_documents, dp_k, dp_filtered, dpOthers>>

NextFilter == DPScan \/ DPScanEnd \/ DPFilter \/ DPReturn

SpecFilter == InitFilter /\ [][NextFilter]_vars

(***************************************************************************)
(* Claims about filter_documents (SpecFilter).                              *)
(***************************************************************************)
DPDone == dp_pc = "done"

\* the field of a document a criterion is compared with
FieldOf(name) == IF name = "doc_type" THEN "type" ELSE name

\* every criterion that is supplied and not empty equals the field
Satisfies(doc, args) ==
    \A name \in DOMAIN args :
        (args[name] # None /\ args[name] # Str(<<>>)) =>
            (FieldOf(name) \in DOMAIN doc /\ doc[FieldOf(name)] = args[name])

RECURSIVE Selected(_, _, _)
\* the documents of the list that satisfy the criteria, in their order
Selected(docs, args, k) ==
    IF k > Len(docs) THEN <<>>
    ELSE (IF Satisfies(docs[k], args) THEN <<docs[k]>> ELSE <<>>) \o Selected(docs, args, k + 1)

\* the .md files of the directory that can be parsed, in their order
RECURSIVE Parseable(_, _)
Parseable(files, k) ==
    IF k > Len(files) THEN <<>>
    ELSE (IF IsMd(files[k]) /\ files[k].parseable THEN <<files[k]>> ELSE <<>>)
         \o Parseable(files, k + 1)

\* C25: filter_documents returns exactly the parsed documents for which
\* every supplied non-empty criterion equals the document's field; a
\* criterion left out imposes nothing, so without criteria the result is
\* the list of get_all_documents, which has one entry per .md file of the
\* directory that can be parsed.
C25_FilterExact ==
    DPDone =>
        /\ Len(dp_documents) = Len(Parseable(dp_files, 1))
        /\ \A i \in 1..Len(dp_documents) :
               dp_documents[i]["relative_path"] = Str(JoinWith(Parseable(dp_files, 1)[i].parts, <<"/">>))
        /\ dp_filtered = Selected(dp_documents, dp_args, 1)
        /\ (\A name \in DOMAIN dp_args : ~Truthy(dp_args[name])) => dp_filtered = dp_documents

\* a document that has no department is left out by a department criterion,
\* and one whose organization comes from its path is kept
C25_PathFieldsCompared ==
    /\ DPDone
    /\ dp_args.department = Str(<<"d", "1">>)
    /\ dp_args.organization = Str(<<"o", "1">>)
    /\ Len(dp_documents) = 2
    /\ Len(dp_filtered) = 1
    /\ "department" \notin DOMAIN dp_documents[1]
    /\ dp_filtered[1]["relative_path"] = Str(<<"o", "1", "/", "d", "1", "/", "y", ".", "m", "d">>)


(***************************************************************************)
(* Claims about the damaged and the one-symbol pairs (SpecRuns).            *)
(***************************************************************************)
\* the line is one matched pair and its interior holds a further sentinel
DamagedPair(toks) ==
    LET line == Line(toks)
    IN /\ ReSplit(PairPattern, line) = <<<<>>, line, <<>>>>
       /\ \/ IsBoldPart(line) /\ HasFormatSentinel(Inner(line, 8, 9))
          \/ ~IsBoldPart(line) /\ IsItalicPart(line) /\ HasFormatSentinel(Inner(line, 10, 11))

\* the segment without its sentinels and without underscores at its edges,
\* whitespace collapsed
Remainder(toks) == CollapseSpaces(ReSub(EdgeUnderscores, <<>>, Visible(toks)))

\* C26: a matched pair whose interior holds a further bold or italic sentinel
\* gives at most one run, neither bold nor italic, whose text is the segment
\* with every sentinel removed and the whitespace collapsed, and no run when
\* nothing remains.
C26_DamagedPairCleaned ==
    (RRDone /\ DamagedPair(rr_toks)) =>
        rr_runs = RunIf(Remainder(rr_toks), FALSE, FALSE)

\* the damaged pairs whose text has no capital Latin letter beside a sentinel
\* and whose sentinels are pairs themselves give the remainder as one plain run
C26_NestedLowerCaseCleaned ==
    (RRDone /\ DamagedPair(rr_toks) /\ rr_toks \in Nested(2)) =>
        rr_runs = RunIf(Remainder(rr_toks), FALSE, FALSE)


(***************************************************************************)
(* Claims about the list after a stand-alone label paragraph (SpecLists).   *)
(***************************************************************************)
\* the text after the item lines starts with a block boundary: a blank line,
\* or <p>, <h or <div at the start of the next line
BlankLine(after) == StartsWith(after, <<"\n", "\n">>)

TagBoundary(after) ==
    \E tag \in {<<"<", "p", ">">>, <<"<", "h">>, <<"<", "d", "i", "v">>} :
        StartsWith(after, <<"\n">> \o tag)

Bounded(in) == BlankLine(in.after) \/ TagBoundary(in.after)

\* the text from the boundary on (the line end before a tag belongs to the
\* last item line)
FromBoundary(after) == IF BlankLine(after) THEN after ELSE Tail(after)

\* the text of the input after the context before it
OwnText(in) == SubSeq(ListsHtml(in), Len(in.before.raw) + 1, Len(ListsHtml(in)))

\* the input has repair shape (b): a stand-alone label, item lines, a boundary
StandAloneList(in) == in.form = "after" /\ in.items # <<>> /\ Bounded(in)

HasThCell(row) == \E c \in 1..Len(row) : row[c].tag = <<"t", "h">>

\* C28: the cells of a row of the table built are bold if and only if the row
\* is the first row or holds a <th> cell; a later row of <td> cells only is
\* not bold, whatever the text of its cells.
C28_BoldRows ==
    (TBDone /\ tb_doc # <<>>) =>
        \A r \in 1..Len(tb_in) : \A c \in 1..Len(tb_in[r]) :
            tb_doc[1].rows[r][c].bold <=> (r = 1 \/ HasThCell(tb_in[r]))

\* the same for the tables whose <td> cells hold no t followed by h
C28_BoldRowsOfPlainCells ==
    (TBDone /\ tb_doc # <<>> /\ tb_in \notin WordTables) =>
        \A r \in 1..Len(tb_in) : \A c \in 1..Len(tb_in[r]) :
            tb_doc[1].rows[r][c].bold <=> (r = 1 \/ HasThCell(tb_in[r]))


\* the line is one pair of kind k around a text without sentinels
SinglePair(toks, k) ==
    /\ Len(toks) >= 3
    /\ toks[1] = OpenOf[k]
    /\ toks[Len(toks)] = CloseOf[k]
    /\ \A j \in 2..(Len(toks) - 1) : ~IsSentinel(toks[j])

\* the text between the sentinels of the pair, trimmed
Interior(toks) == Strip(Flatten(SubSeq(toks, 2, Len(toks) - 1)))

NoUnderscore(t) == \A j \in 1..Len(t) : t[j] # "_"

====
